---- MODULE Spec2Model ----
(***************************************************************************)
(* A model of yadtshell's component model (components.py) and status       *)
(* pipeline (status.py).                                                   *)
(*                                                                         *)
(* State machines share the module, each with its own variables and its   *)
(* own specification:                                                      *)
(*   SpecUpdate     Host.update with its reboot polling (u_* variables)    *)
(*   SpecComponent  the operations of one component: lock, unlock,        *)
(*                  ignore, unignore, stop (c_* and i_* variables)         *)
(*   Spec           the status pipeline over the component registry        *)
(*   SpecRegistry   lookups in the ComponentDict                           *)
(*   SpecPool       a command: implicit status, plan, DeferredPool         *)
(*   SpecDo         components.do                                          *)
(* A specification leaves the variables of the other machines at rest.     *)
(***************************************************************************)
EXTENDS Integers, Sequences, FiniteSets, TLC

VARIABLES
    \* ---- Host.update (components.py 379-433)
    u_pc,          \* position of the update: "init", "returned", "update", "poll", "wait", "done"
    u_max,         \* self.ssh_poll_max_seconds
    u_delay,       \* yadtshell.constants.SSH_POLL_DELAY
    u_cmd,         \* the remote command update() built
    u_exit,        \* exit code of the update process, -1 while none
    u_count,       \* `count` of the running poll_rebooting_machine call
    u_polls,       \* number of 'uptime' poll processes spawned
    u_clock,       \* seconds waited in task.deferLater since the 255 exit
    u_pollTimes,   \* u_clock at each spawn of a poll process
    u_okAt,        \* index of the poll that exited 0, 0 while none
    u_result,      \* how the returned deferred ended
    u_reported,    \* seconds logged by display_reboot_info, -1 while none
    u_tryLog       \* last "try <count> of <max_tries>" logged

updateVars == <<u_pc, u_max, u_delay, u_cmd, u_exit, u_count, u_polls, u_clock,
                u_pollTimes, u_okAt, u_result, u_reported, u_tryLog>>

VARIABLES
    \* ---- one component and the operation called on it (components.py)
    c_kind,        \* class of the component
    c_hostKind,    \* class of the host object the component was constructed with
    c_op,          \* the operation called, "none" before the call
    c_args,        \* its arguments: message, force, retry_count
    c_ret,         \* what the call gave back: "none", "raised", "command", "deferred"
    c_state,       \* state of the returned deferred: "pending", "succeeded", "failed", "-"
    c_val,         \* result of the deferred, or the exception raised
    c_cmd,         \* the remote command returned to the caller, or spawned
    c_spawned,     \* number of processes the operation spawned itself
    c_exit,        \* exit code of the process spawned, -1 while it has not ended
    c_sent,        \* send_host_change calls made to the broadcast client
    \* ---- the retry loop of AbstractHost.ignore (components.py 301-327)
    i_stage,       \* "idle", "send", "probe", "sleep", "stop"
    i_tries_left,  \* tries_left of the wait_for_result call whose probe is in flight
    i_arg,         \* the argument deferLater passes to wait_for_result
    i_probes,      \* number of status-ignored probes issued
    i_clock,       \* seconds waited in task.deferLater
    i_probeTimes,  \* i_clock at each probe
    i_inner        \* how the probe chain ended: "none", "answered", "exception"

componentVars == <<c_kind, c_hostKind, c_op, c_args, c_ret, c_state, c_val, c_cmd,
                   c_spawned, c_exit, c_sent,
                   i_stage, i_tries_left, i_arg, i_probes, i_clock, i_probeTimes, i_inner>>

VARIABLES
    \* ---- the status pipeline (status.py)
    components,    \* the ComponentDict: reg maps a key to an object of heap
    add_when_missing,                   \* components._add_when_missing_
    settings_ignore_unreachable_hosts,  \* yadtshell.settings.ignore_unreachable_hosts
    kwargs_ignore_unreachable_hosts,    \* status(ignore_unreachable_hosts=...)
    deferreds,     \* the branch of each target: pc "query", "status", "done"
    phase,         \* the callback of the DeferredList that runs next
    missing_deferreds,   \* the re-probes fetch_missing_hosts started
    readonly_deferreds,  \* the status processes of the ReadonlyServices
    spawned,       \* the processes spawned, in order
    snapshot       \* OUT_DIR/current_state.components: "earlier", "absent", "written"

statusVars == <<components, add_when_missing, settings_ignore_unreachable_hosts,
                kwargs_ignore_unreachable_hosts, deferreds, phase, missing_deferreds,
                readonly_deferreds, spawned, snapshot>>

VARIABLES
    \* ---- one lookup in the ComponentDict (components.py)
    d_call,        \* the lookup made last: operation, key, mode of the registry
    d_ret,         \* what it returned or raised
    d_before       \* the registry before it

registryVars == <<d_call, d_ret, d_before>>

VARIABLES
    \* ---- a plan and the DeferredPool that runs it (yadtshell.actions, yadtshell.defer)
    command,        \* the command line: cmd, ignore_unreachable_hosts, nr_workers
    plan,           \* the ActionPlan: name, actions
    plan_given,     \* the actions the plan was constructed with
    handled_hosts,  \* the hosts given to remove_actions_on_unhandled_hosts
    plan_state,     \* "command", "status", "failed", "new", "filtered", "PlanEmpty", "queued"
    pool,           \* the DeferredPool: queue, workers, error count
    reactor,        \* the reactor.callLater calls that have not run yet
    pool_result,    \* the call with which the deferred of the pool fired
    host_log,       \* per host, the commands started and ended on it, in order
    exit_code       \* exit code of the command, -1 while none

poolVars == <<command, plan, plan_given, handled_hosts, plan_state, pool, reactor,
              pool_result, host_log, exit_code>>

VARIABLES
    \* ---- components.do (components.py 635-670)
    do_args,       \* cmd and component_names
    do_opts,       \* opts: the message
    do_state,      \* what restore_current_state finds
    do_pc,         \* "called", "loop", "ended"
    do_i,          \* position of the loop in component_names
    do_called,     \* the operations called on components, in order
    do_exit        \* how do ended: sys.exit(code), or an exception

doVars == <<do_args, do_opts, do_state, do_pc, do_i, do_called, do_exit>>

commandVars == <<poolVars, doVars>>

vars == <<updateVars, componentVars, statusVars, registryVars, commandVars>>

\* Python's None
None == "<None>"

(***************************************************************************)
(* Bounds of the model                                                     *)
(***************************************************************************)
MaxPollSeconds == 6
MaxPollDelay == 3
MaxMsgLen == 2
MaxRetryCount == 3
MaxProbes == 6
MaxLookups == 2
MaxWorkers == 3
MaxActions == 3
MaxNames == 2

(***************************************************************************)
(* Host.update                                                             *)
(***************************************************************************)

\* exit codes a spawned ssh process may end with
ExitCodes == {0, 1, 127, 152, 255}

\* the exit code of a process that has not ended
NoExit == -1

\* yadtshell.util.calculate_max_tries_for_interval_and_delay: only logged
calculate_max_tries_for_interval_and_delay(interval, delay) == interval \div delay

\* the remote command Host.update builds
UpdateCommand(reboot_required, upgrade_packages, has_next) ==
    [cmd |-> "yadt-host-update",
     reboot |-> reboot_required,
     artefacts |-> IF reboot_required THEN (upgrade_packages /\ has_next) ELSE has_next]

handle_rebooting_machine_polls_on_timeout(exitCode) ==
    IF exitCode = 152 \/ exitCode = 255 THEN "poll" ELSE "propagate"

\* handle_rebooting_machine: what the errback of the update process does
handle_rebooting_machine(exitCode) ==
    IF exitCode = 152 THEN "timeout"
    ELSE IF exitCode = 255 THEN "poll"
    ELSE "propagate"

\* the guard of poll_rebooting_machine that attaches the retry errback
poll_may_retry(count, delay, max_seconds) == (count * delay) < max_seconds

display_reboot_info_elapsed_waits(ssh_poll_count, delay) == (ssh_poll_count - 1) * delay

\* display_reboot_info: the seconds it logs for the protocol it is given
display_reboot_info(ssh_poll_count, delay) == ssh_poll_count * delay

NoResult == [kind |-> "none", code |-> -1]

UpdateStart ==
    /\ u_pc = "init"
    /\ u_max \in 1..MaxPollSeconds
    /\ u_delay \in 1..MaxPollDelay
    /\ u_cmd = None
    /\ u_exit = -1
    /\ u_count = 0
    /\ u_polls = 0
    /\ u_clock = 0
    /\ u_pollTimes = <<>>
    /\ u_okAt = 0
    /\ u_result = NoResult
    /\ u_reported = -1
    /\ u_tryLog = <<>>

\* Host.update(reboot_required=False): returns the remote command, spawns nothing
UpdateWithoutReboot ==
    /\ UNCHANGED <<componentVars, statusVars, registryVars, commandVars>>
    /\ u_pc = "init"
    /\ \E has_next \in BOOLEAN :
         u_cmd' = UpdateCommand(FALSE, TRUE, has_next)
    /\ u_pc' = "returned"
    /\ UNCHANGED <<u_max, u_delay, u_exit, u_count, u_polls, u_clock, u_pollTimes,
                   u_okAt, u_result, u_reported, u_tryLog>>

\* Host.update(reboot_required=True): spawns the update process, returns its deferred
UpdateWithReboot ==
    /\ UNCHANGED <<componentVars, statusVars, registryVars, commandVars>>
    /\ u_pc = "init"
    /\ \E upgrade_packages \in BOOLEAN, has_next \in BOOLEAN :
         u_cmd' = UpdateCommand(TRUE, upgrade_packages, has_next)
    /\ u_pc' = "update"
    /\ UNCHANGED <<u_max, u_delay, u_exit, u_count, u_polls, u_clock, u_pollTimes,
                   u_okAt, u_result, u_reported, u_tryLog>>

\* poll_rebooting_machine(count): logs the try and spawns one 'uptime' process
SpawnPoll(count) ==
    /\ u_count' = count
    /\ u_polls' = u_polls + 1
    /\ u_pollTimes' = Append(u_pollTimes, u_clock')
    /\ u_tryLog' = <<count, calculate_max_tries_for_interval_and_delay(u_max, u_delay)>>
    /\ u_pc' = "poll"

\* the update process ends: callback chain of p.deferred
UpdateExit ==
    /\ UNCHANGED <<componentVars, statusVars, registryVars, commandVars>>
    /\ u_pc = "update"
    /\ \E code \in ExitCodes :
        /\ u_exit' = code
        /\ IF code = 0
           THEN \* display_reboot_info(p): p has no ssh_poll_count
                /\ u_result' = [kind |-> "ok", code |-> 0]
                /\ u_pc' = "done"
                /\ UNCHANGED <<u_count, u_polls, u_clock, u_pollTimes, u_tryLog>>
           ELSE CASE handle_rebooting_machine(code) = "timeout" ->
                       /\ u_result' = [kind |-> "ActionException", code |-> 152]
                       /\ u_pc' = "done"
                       /\ UNCHANGED <<u_count, u_polls, u_clock, u_pollTimes, u_tryLog>>
                  [] handle_rebooting_machine(code) = "poll" ->
                       /\ u_clock' = u_clock
                       /\ SpawnPoll(1)
                       /\ UNCHANGED u_result
                  [] OTHER ->
                       /\ u_result' = [kind |-> "failure", code |-> code]
                       /\ u_pc' = "done"
                       /\ UNCHANGED <<u_count, u_polls, u_clock, u_pollTimes, u_tryLog>>
    /\ UNCHANGED <<u_max, u_delay, u_cmd, u_okAt, u_reported>>

\* a poll process ends
PollExit ==
    /\ UNCHANGED <<componentVars, statusVars, registryVars, commandVars>>
    /\ u_pc = "poll"
    /\ \E code \in ExitCodes :
        IF code = 0
        THEN \* its deferred succeeds: display_reboot_info(poll_protocol)
             /\ u_okAt' = u_count
             /\ u_reported' = display_reboot_info(u_count, u_delay)
             /\ u_result' = [kind |-> "ok", code |-> 0]
             /\ u_pc' = "done"
        ELSE IF poll_may_retry(u_count, u_delay, u_max)
        THEN \* the errback schedules poll_rebooting_machine(count + 1)
             /\ u_pc' = "wait"
             /\ UNCHANGED <<u_okAt, u_reported, u_result>>
        ELSE \* no errback was attached: the failure reaches the caller
             /\ u_result' = [kind |-> "failure", code |-> code]
             /\ u_pc' = "done"
             /\ UNCHANGED <<u_okAt, u_reported>>
    /\ UNCHANGED <<u_max, u_delay, u_cmd, u_exit, u_count, u_polls, u_clock,
                   u_pollTimes, u_tryLog>>

\* task.deferLater(reactor, SSH_POLL_DELAY, poll_rebooting_machine, count + 1) fires
PollTimer ==
    /\ UNCHANGED <<componentVars, statusVars, registryVars, commandVars>>
    /\ u_pc = "wait"
    /\ u_clock' = u_clock + u_delay
    /\ SpawnPoll(u_count + 1)
    /\ UNCHANGED <<u_max, u_delay, u_cmd, u_exit, u_okAt, u_result, u_reported>>

UpdateRest ==
    /\ u_pc = "rest"
    /\ u_max = 0
    /\ u_delay = 0
    /\ u_cmd = None
    /\ u_exit = -1
    /\ u_count = 0
    /\ u_polls = 0
    /\ u_clock = 0
    /\ u_pollTimes = <<>>
    /\ u_okAt = 0
    /\ u_result = NoResult
    /\ u_reported = -1
    /\ u_tryLog = <<>>

UpdateNext ==
    \/ UpdateWithoutReboot
    \/ UpdateWithReboot
    \/ UpdateExit
    \/ PollExit
    \/ PollTimer

(***************************************************************************)
(* The operations of a component                                           *)
(***************************************************************************)

\* characters a message is made of
Chars == {"a", "'", "\""}

RECURSIVE SeqsUpTo(_, _)
SeqsUpTo(S, n) ==
    IF n = 0 THEN {<<>>}
    ELSE LET shorter == SeqsUpTo(S, n - 1)
         IN  shorter \cup {Append(t, c) : t \in shorter, c \in S}

\* the `message` argument: None (the default) or a string
NoMessage == [some |-> FALSE, text |-> <<>>]
Messages == {NoMessage} \cup {[some |-> TRUE, text |-> t] : t \in SeqsUpTo(Chars, MaxMsgLen)}

not_message_is_none(message) == ~message.some

\* Python's `not message`
not_message(message) == ~message.some \/ message.text = <<>>

\* Host.lock.strip_quotes_from_message
strip_quotes_from_message(text) ==
    SelectSeq(text, LAMBDA ch : ch \notin {"'", "\""})

HostKinds == {"Host", "UnreachableHost", "IgnoredHost"}
ComponentKinds == HostKinds \cup {"Service", "ReadonlyService"}

NoCommand == [command |-> "", argument |-> <<>>, tag |-> "", force |-> FALSE]

\* Component.remote_call: the command line handed back to the caller
remote_call(cmd, argument, tag, force) ==
    [command |-> cmd, argument |-> argument, tag |-> tag, force |-> force]

\* ReadonlyService.__init__: is_ignored
readonly_is_ignored(hostKind) == hostKind = "IgnoredHost"

\* the operations each class defines or inherits
Operations(kind) ==
    CASE kind = "Host"            -> {"lock", "unlock", "ignore", "unignore"}
      [] kind = "UnreachableHost" -> {"ignore", "unignore"}
      [] kind = "IgnoredHost"     -> {"lock", "unlock", "ignore", "unignore"}
      [] kind = "Service"         -> {"stop", "start", "ignore", "unignore"}
      [] kind = "ReadonlyService" -> {"stop", "start"}

Args == [message : Messages, force : BOOLEAN, retry_count : 0..MaxRetryCount]

ComponentStart ==
    /\ c_kind \in ComponentKinds
    /\ c_hostKind \in (IF c_kind \in HostKinds THEN {c_kind}
                       ELSE IF c_kind = "Service" THEN {"Host"}
                       ELSE HostKinds)
    /\ c_op = "none"
    /\ c_args = [message |-> NoMessage, force |-> FALSE, retry_count |-> 0]
    /\ c_ret = "none"
    /\ c_state = "-"
    /\ c_val = None
    /\ c_cmd = NoCommand
    /\ c_spawned = 0
    /\ c_exit = NoExit
    /\ c_sent = 0
    /\ i_stage = "idle"
    /\ i_tries_left = 0
    /\ i_arg = 0
    /\ i_probes = 0
    /\ i_clock = 0
    /\ i_probeTimes = <<>>
    /\ i_inner = "none"

ComponentRest ==
    /\ c_kind = "rest"
    /\ c_hostKind = "rest"
    /\ c_op = "none"
    /\ c_args = [message |-> NoMessage, force |-> FALSE, retry_count |-> 0]
    /\ c_ret = "none"
    /\ c_state = "-"
    /\ c_val = None
    /\ c_cmd = NoCommand
    /\ c_spawned = 0
    /\ c_exit = NoExit
    /\ c_sent = 0
    /\ i_stage = "idle"
    /\ i_tries_left = 0
    /\ i_arg = 0
    /\ i_probes = 0
    /\ i_clock = 0
    /\ i_probeTimes = <<>>
    /\ i_inner = "none"

ignoreVars == <<i_stage, i_tries_left, i_arg, i_probes, i_clock, i_probeTimes, i_inner>>

\* the call raises: nothing is returned
Raises(exc) ==
    /\ c_ret' = "raised"
    /\ c_val' = exc
    /\ UNCHANGED <<c_state, c_cmd>>

\* the call returns a remote command for the caller to execute
ReturnsCommand(cmd) ==
    /\ c_ret' = "command"
    /\ c_cmd' = cmd
    /\ UNCHANGED <<c_state, c_val>>

\* the call returns a deferred that has already fired
ReturnsFired(state, val) ==
    /\ c_ret' = "deferred"
    /\ c_state' = state
    /\ c_val' = val
    /\ UNCHANGED c_cmd

\* Host.lock
HostLock(message, force) ==
    IF not_message(message)
    THEN Raises("ValueError")
    ELSE ReturnsCommand(remote_call("yadt-host-lock",
                                    strip_quotes_from_message(message.text),
                                    "lock_host", force))

\* IgnoredHost.lock
IgnoredHostLock(message, force) == ReturnsFired("succeeded", None)

\* Host.unlock
HostUnlock(force) ==
    ReturnsCommand(remote_call("yadt-host-unlock", <<>>, "unlock_host", force))

IgnoredHostUnlock_not_overridden(force) ==
    ReturnsCommand(remote_call("yadt-host-unlock", <<>>, "unlock_host", force))

\* IgnoredHost.unlock
IgnoredHostUnlock(force) == ReturnsFired("succeeded", None)

\* Service.ignore
ServiceIgnore(message, force) ==
    IF not_message(message)
    THEN Raises("ValueError")
    ELSE ReturnsCommand(remote_call("yadt-service-ignore", message.text, "ignore", force))

\* Service.unignore
ServiceUnignore ==
    ReturnsCommand(remote_call("yadt-service-unignore", <<>>, "unignore", FALSE))

\* Service.stop
ServiceStop(force) ==
    ReturnsCommand(remote_call("yadt-service-stop", <<>>, "stop", force))

\* Service.start
ServiceStart(force) ==
    ReturnsCommand(remote_call("yadt-service-start", <<>>, "start", force))

ReadonlyServiceStop_as_service(is_ignored) ==
    IF is_ignored
    THEN ReturnsFired("succeeded", "0")
    ELSE ReturnsCommand(remote_call("yadt-service-stop", <<>>, "stop", FALSE))

\* ReadonlyService.stop
ReadonlyServiceStop(is_ignored) ==
    IF is_ignored
    THEN ReturnsFired("succeeded", "0")
    ELSE ReturnsFired("failed", "RuntimeError: Not allowed to stop readonly")

\* a start that is the start of a Service
ReadonlyServiceStart_as_service(is_ignored) ==
    /\ ReturnsCommand(remote_call("yadt-service-start", <<>>, "start", FALSE))
    /\ UNCHANGED c_spawned

\* ReadonlyService.start: nothing on an IgnoredHost, else status(), which
\* spawns yadt-service-status and hands back the deferred of its protocol
ReadonlyServiceStart(is_ignored) ==
    IF is_ignored
    THEN /\ ReturnsFired("succeeded", "0")
         /\ UNCHANGED c_spawned
    ELSE /\ c_ret' = "deferred"
         /\ c_state' = "pending"
         /\ c_cmd' = remote_call("yadt-service-status", <<>>, "status", FALSE)
         /\ c_spawned' = c_spawned + 1
         /\ UNCHANGED c_val

\* the errback ReadonlyService.start adds to the deferred of the probe
readonly_start_handle_error == "RuntimeError: Cannot start readonly"

CallFrame(op, args) ==
    /\ c_op = "none"
    /\ c_op' = op
    /\ c_args' = args
    /\ UNCHANGED <<c_kind, c_hostKind>>
    /\ UNCHANGED <<commandVars, updateVars, statusVars, registryVars>>

\* lock(message, force) on a Host or an IgnoredHost
Lock ==
    /\ "lock" \in Operations(c_kind)
    /\ \E args \in Args :
        /\ CallFrame("lock", args)
        /\ IF c_kind = "IgnoredHost"
           THEN IgnoredHostLock(args.message, args.force)
           ELSE HostLock(args.message, args.force)
    /\ UNCHANGED <<c_spawned, c_exit, c_sent, ignoreVars>>

\* unlock(force) on a Host or an IgnoredHost
Unlock ==
    /\ "unlock" \in Operations(c_kind)
    /\ \E args \in Args :
        /\ CallFrame("unlock", args)
        /\ IF c_kind = "IgnoredHost"
           THEN IgnoredHostUnlock(args.force)
           ELSE HostUnlock(args.force)
    /\ UNCHANGED <<c_spawned, c_exit, c_sent, ignoreVars>>

\* stop on a Service or a ReadonlyService
Stop ==
    /\ "stop" \in Operations(c_kind)
    /\ \E args \in Args :
        /\ CallFrame("stop", args)
        /\ IF c_kind = "ReadonlyService"
           THEN ReadonlyServiceStop(readonly_is_ignored(c_hostKind))
           ELSE ServiceStop(args.force)
    /\ UNCHANGED <<c_spawned, c_exit, c_sent, ignoreVars>>

\* Service.start
Start ==
    /\ c_kind = "Service"
    /\ \E args \in Args :
        /\ CallFrame("start", args)
        /\ ServiceStart(args.force)
    /\ UNCHANGED <<c_spawned, c_exit, c_sent, ignoreVars>>

\* ReadonlyService.start()
ReadonlyStart ==
    /\ c_kind = "ReadonlyService"
    /\ CallFrame("start", [message |-> NoMessage, force |-> FALSE, retry_count |-> 0])
    /\ ReadonlyServiceStart(readonly_is_ignored(c_hostKind))
    /\ UNCHANGED <<c_exit, c_sent, ignoreVars>>

\* the yadt-service-status process of ReadonlyService.start ends: its
\* deferred fires with the protocol, or with the error of handle_error
ReadonlyProbeEnds ==
    /\ c_kind = "ReadonlyService"
    /\ c_op = "start"
    /\ c_state = "pending"
    /\ \E exitCode \in ExitCodes :
        /\ c_exit' = exitCode
        /\ c_state' = IF exitCode = 0 THEN "succeeded" ELSE "failed"
        /\ c_val' = IF exitCode = 0 THEN "protocol" ELSE readonly_start_handle_error
    /\ UNCHANGED <<c_kind, c_hostKind, c_op, c_args, c_ret, c_cmd, c_spawned, c_sent,
                   ignoreVars>>
    /\ UNCHANGED <<commandVars, updateVars, statusVars, registryVars>>

\* Service.ignore(message, force=...)
IgnoreService ==
    /\ c_kind = "Service"
    /\ \E args \in Args :
        /\ CallFrame("ignore", args)
        /\ ServiceIgnore(args.message, args.force)
    /\ UNCHANGED <<c_spawned, c_exit, c_sent, ignoreVars>>

\* Service.unignore
UnignoreService ==
    /\ c_kind = "Service"
    /\ \E args \in Args :
        /\ CallFrame("unignore", args)
        /\ ServiceUnignore
    /\ UNCHANGED <<c_spawned, c_exit, c_sent, ignoreVars>>

(***************************************************************************)
(* AbstractHost.ignore and unignore                                        *)
(***************************************************************************)

\* seconds between two status-ignored probes (task.deferLater(reactor, 1, ...))
IgnoreRetryDelay == 1

\* tries_left of a wait_for_result call that deferLater makes with one
\* positional argument: `ignored` takes it, tries_left keeps its default
wait_for_result_default_tries_left == 1

\* check_error: retry while tries_left > 0
check_error_retries(tries_left) == tries_left > 0

\* wait_for_result: issues one status-ignored probe and returns None
IssueProbe(tries_left) ==
    /\ i_probes' = i_probes + 1
    /\ i_probeTimes' = Append(i_probeTimes, i_clock')
    /\ i_tries_left' = tries_left
    /\ i_stage' = "probe"

\* AbstractHost.ignore(message, retry_count) up to its return
IgnoreHost ==
    /\ c_kind \in HostKinds
    /\ \E args \in Args :
        /\ CallFrame("ignore", args)
        /\ IF not_message(args.message)
           THEN /\ Raises("ValueError")
                /\ UNCHANGED ignoreVars
           ELSE \* deferLater(reactor, 0, send_host_change, ...) is scheduled, d returned
                /\ c_ret' = "deferred"
                /\ c_state' = "pending"
                /\ i_stage' = "send"
                /\ UNCHANGED <<c_val, c_cmd, i_tries_left, i_arg, i_probes, i_clock,
                               i_probeTimes, i_inner>>
    /\ UNCHANGED <<c_spawned, c_exit, c_sent>>

\* the delayed send_host_change runs; on success d's callback wait_for_result
\* (result, retry_count) issues the first probe and returns None, so d fires
IgnoreSend ==
    /\ i_stage = "send"
    /\ c_sent' = c_sent + 1
    /\ \E sent_ok \in BOOLEAN :
        IF sent_ok
        THEN /\ i_clock' = i_clock
             /\ IssueProbe(c_args.retry_count)
             /\ c_state' = "succeeded"
             /\ c_val' = None
             /\ UNCHANGED <<i_arg, i_inner>>
        ELSE /\ c_state' = "failed"
             /\ c_val' = "send_host_change failed"
             /\ i_stage' = "stop"
             /\ UNCHANGED <<i_tries_left, i_arg, i_probes, i_clock, i_probeTimes, i_inner>>
    /\ UNCHANGED <<c_kind, c_hostKind, c_op, c_args, c_ret, c_cmd, c_spawned, c_exit>>
    /\ UNCHANGED <<commandVars, updateVars, statusVars, registryVars>>

\* the status-ignored probe ends: check_status or check_error
IgnoreProbeEnds ==
    /\ i_stage = "probe"
    /\ \E answered \in BOOLEAN :
        IF answered
        THEN /\ i_inner' = "answered"
             /\ i_stage' = "stop"
             /\ UNCHANGED i_arg
        ELSE IF check_error_retries(i_tries_left)
        THEN /\ i_arg' = i_tries_left - 1
             /\ i_stage' = "sleep"
             /\ UNCHANGED i_inner
        ELSE /\ i_inner' = "exception"
             /\ i_stage' = "stop"
             /\ UNCHANGED i_arg
    /\ UNCHANGED <<i_tries_left, i_probes, i_clock, i_probeTimes>>
    /\ UNCHANGED <<c_kind, c_hostKind, c_op, c_args, c_ret, c_state, c_val, c_cmd,
                   c_spawned, c_exit, c_sent>>
    /\ UNCHANGED <<commandVars, updateVars, statusVars, registryVars>>

\* deferLater(reactor, 1, wait_for_result, tries_left - 1) fires
IgnoreRetryTimer ==
    /\ i_stage = "sleep"
    /\ i_probes < MaxProbes
    /\ i_clock' = i_clock + IgnoreRetryDelay
    /\ IssueProbe(wait_for_result_default_tries_left)
    /\ UNCHANGED <<i_arg, i_inner>>
    /\ UNCHANGED <<c_kind, c_hostKind, c_op, c_args, c_ret, c_state, c_val, c_cmd,
                   c_spawned, c_exit, c_sent>>
    /\ UNCHANGED <<commandVars, updateVars, statusVars, registryVars>>

\* AbstractHost.unignore: schedules send_host_change, returns a fired deferred
UnignoreHost ==
    /\ c_kind \in HostKinds
    /\ \E args \in Args :
        /\ CallFrame("unignore", args)
        /\ ReturnsFired("succeeded", None)
    /\ i_stage' = "unsend"
    /\ UNCHANGED <<c_spawned, c_exit, c_sent, i_tries_left, i_arg, i_probes, i_clock,
                   i_probeTimes, i_inner>>

\* reactor.callLater(1, send_host_change, cmd='unignore', ...) fires
UnignoreSend ==
    /\ i_stage = "unsend"
    /\ c_sent' = c_sent + 1
    /\ i_stage' = "stop"
    /\ i_clock' = i_clock + 1
    /\ UNCHANGED <<i_tries_left, i_arg, i_probes, i_probeTimes, i_inner>>
    /\ UNCHANGED <<c_kind, c_hostKind, c_op, c_args, c_ret, c_state, c_val, c_cmd,
                   c_spawned, c_exit>>
    /\ UNCHANGED <<commandVars, updateVars, statusVars, registryVars>>

ComponentNext ==
    \/ Lock
    \/ Unlock
    \/ Stop
    \/ Start
    \/ ReadonlyStart
    \/ ReadonlyProbeEnds
    \/ IgnoreService
    \/ UnignoreService
    \/ IgnoreHost
    \/ IgnoreSend
    \/ IgnoreProbeEnds
    \/ IgnoreRetryTimer
    \/ UnignoreHost
    \/ UnignoreSend

(***************************************************************************)
(* URIs and component constructors                                         *)
(***************************************************************************)

\* a URI type://host[/name[/version]] is the tuple of its parts
uri_create(type, host, name, version) ==
    <<type, host>> \o (IF name = None THEN <<>> ELSE <<name>>)
                   \o (IF version = None THEN <<>> ELSE <<version>>)

\* the types yadtshell.uri.parse recognises; any other is rejected
uri_types == {"host", "service", "artefact"}

uri_rejected(s) == s[1] \notin uri_types

\* the first parts of a needs_services entry for which
\* n.startswith(yadtshell.settings.SERVICE) holds
ServicePrefixed == {"service", "services", "servicedb"}

uri_parse(s) ==
    [type |-> s[1],
     host |-> s[2],
     name |-> IF Len(s) >= 3 THEN s[3] ELSE None,
     version |-> IF Len(s) >= 4 THEN s[4] ELSE None]

\* yadtshell.util.not_up
not_up(state) == state \notin {"up", "uptodate", "update_needed", "installed"}

\* yadtshell.settings.STATE_DESCRIPTIONS.get(state, UNKNOWN)
state_description(state) ==
    CASE state = 0 -> "up"
      [] state = 1 -> "down"
      [] OTHER -> "unknown"

\* Python's True and False as the values of an attribute that may also be
\* None or a string
PyTrue == "True"
PyFalse == "False"

py_bool(b) == IF b THEN PyTrue ELSE PyFalse

\* the truth value of a Python value
truthy(v) == v \notin {None, PyFalse, ""}

\* a and b, a or b, not a
py_and(a, b) == IF truthy(a) THEN b ELSE a
py_not(a) == py_bool(~truthy(a))

\* a lockstate: null, or a dict of len entries of which owner may be one
Lockstate(len, owner) == [null |-> FALSE, len |-> len, owner |-> owner]
NoLockstate == [null |-> TRUE, len |-> 0, owner |-> None]

\* lockstate.get("owner") of a lockstate that is not empty, None otherwise
lock_owner(lockstate) ==
    IF ~lockstate.null /\ lockstate.len > 0 THEN lockstate.owner ELSE None

\* yadtshell.helper.get_user_info()["owner"]: who runs the shell
UserOwner == "me@shell"

\* the attributes an object of any component class may carry; services is
\* the dict of a host, services_list the list while services_type is "list"
Blank ==
    [cls |-> "", type |-> "", name |-> "", host |-> "", fqdn |-> <<>>,
     uri |-> <<>>, host_uri |-> <<>>, state |-> "unknown",
     needs |-> {}, needed_by |-> {},
     version |-> None, revision |-> None, revision_uri |-> <<>>,
     is_ignored |-> FALSE, message |-> None,
     services |-> <<>>, current_artefacts |-> <<>>, next_artefacts |-> <<>>,
     defined_services |-> <<>>,
     hostname |-> "", services_type |-> "dict", services_list |-> <<>>,
     lockstate |-> NoLockstate,
     is_locked |-> None, is_locked_by_me |-> None, is_locked_by_other |-> None]

\* Component.__init__(t, host, name)
Component(t, host, name) ==
    [Blank EXCEPT !.type = t, !.name = name, !.host = host.name, !.fqdn = host.fqdn,
                  !.uri = uri_create(t, host.name, name, None),
                  !.host_uri = uri_create("host", host.name, None, None)]

\* AbstractHost.__init__(fqdn): hostname is the first label of fqdn
AbstractHost(cls, fqdn) ==
    LET hostname == fqdn[1]
        self == [name |-> hostname, fqdn |-> fqdn]
    IN  [Component("host", self, hostname) EXCEPT
            !.cls = cls,
            !.hostname = hostname,
            !.uri = uri_create("host", hostname, None, None)]

\* Host.__init__
Host(fqdn) == AbstractHost("Host", fqdn)

\* UnreachableHost.__init__, with the properties the class fixes
UnreachableHost(fqdn) ==
    [AbstractHost("UnreachableHost", fqdn) EXCEPT
        !.is_locked_by_other = PyFalse, !.is_locked_by_me = PyFalse]

\* IgnoredHost.__init__
IgnoredHost(fqdn, message) ==
    [AbstractHost("IgnoredHost", fqdn) EXCEPT
        !.is_ignored = TRUE, !.message = message,
        !.is_locked = PyFalse, !.is_locked_by_other = PyFalse, !.is_locked_by_me = PyFalse]

\* is_reachable of Host, UnreachableHost and IgnoredHost
is_reachable(host) == host.cls = "Host"

\* is_unknown: fixed by UnreachableHost and IgnoredHost, the state otherwise
is_unknown(component) ==
    CASE component.cls = "UnreachableHost" -> TRUE
      [] component.cls = "IgnoredHost" -> FALSE
      [] OTHER -> component.state = "unknown"

\* the loop of set_attrs_from_data: setattr(self, key, value) for every key
setattrs(host, data) ==
    [host EXCEPT !.fqdn = data.fqdn,
                 !.hostname = data.hostname,
                 !.services = data.services,
                 !.services_type = data.services_type,
                 !.services_list = data.services_list,
                 !.current_artefacts = data.current_artefacts,
                 !.next_artefacts = data.next_artefacts,
                 !.lockstate = data.lockstate]

\* the warning of set_attrs_from_data is built with "... %(fqdn)." % data: a
\* format that ends inside a conversion, for which % raises ValueError
hostname_warning_raises(host, data) == data.hostname # host.hostname

RECURSIVE services_update(_, _)
\* self.services.update(entry) for each single-entry map of the list
services_update(services, entries) ==
    IF entries = <<>> THEN services
    ELSE LET entry == Head(entries)
             updated == [n \in DOMAIN services \cup {entry.name} |->
                            IF n = entry.name THEN entry.settings ELSE services[n]]
         IN  services_update(updated, Tail(entries))

\* a conversion that takes every list, the empty one too
convert_obsolete_services_of_any_length(host) ==
    IF host.services_type = "list"
    THEN [host EXCEPT !.services = services_update(<<>>, host.services_list),
                      !.services_type = "dict",
                      !.services_list = <<>>]
    ELSE host

\* Host.convert_obsolete_services(self.services)
convert_obsolete_services(host) ==
    IF Len(host.services_list) > 0 /\ host.services_type = "list"
    THEN [host EXCEPT !.services = services_update(<<>>, host.services_list),
                      !.services_type = "dict",
                      !.services_list = <<>>]
    ELSE host

\* a derivation that takes every locked host as locked by me
update_attributes_after_status_owner_unread(host) ==
    LET is_locked == py_bool(~host.lockstate.null)
    IN  [host EXCEPT !.is_locked = is_locked,
                     !.is_locked_by_me = is_locked,
                     !.is_locked_by_other = py_and(is_locked, py_not(is_locked))]

\* Host.update_attributes_after_status
update_attributes_after_status(host) ==
    LET is_locked == py_bool(~host.lockstate.null)
        owner == lock_owner(host.lockstate)
        is_locked_by_me == py_and(is_locked, py_and(owner, py_bool(owner = UserOwner)))
    IN  [host EXCEPT !.is_locked = is_locked,
                     !.is_locked_by_me = is_locked_by_me,
                     !.is_locked_by_other = py_and(is_locked, py_not(is_locked_by_me))]

\* a decode that sets the attributes and leaves the state as it was
set_attrs_from_data_state_kept(host, data) ==
    update_attributes_after_status(convert_obsolete_services(setattrs(host, data)))

\* Host.set_attrs_from_data, when the warning is not raised
set_attrs_from_data(host, data) ==
    LET converted == convert_obsolete_services(setattrs(host, data))
    IN  update_attributes_after_status(
            [converted EXCEPT !.state = IF converted.next_artefacts = <<>>
                                        THEN "uptodate" ELSE "update_needed"])

\* MissingComponent.__init__(s)
MissingComponent(s) ==
    LET parts == uri_parse(s)
    IN  [Component(parts.type, Host(<<parts.host>>), parts.name) EXCEPT
            !.cls = "MissingComponent",
            !.version = parts.version,
            !.state = "missing"]

\* ReadonlyService.__init__(host, name)
ReadonlyService(host, name) ==
    [Component("service", host, name) EXCEPT
        !.cls = "ReadonlyService",
        !.state = "unknown",
        !.is_ignored = (host.cls = "IgnoredHost")]

\* Artefact.__init__(host, name, version, revision)
Artefact(host, name, version, revision) ==
    [Component("artefact", host, name) EXCEPT
        !.cls = "Artefact",
        !.version = version,
        !.revision = revision,
        !.state = "installed",
        !.uri = uri_create("artefact", host.name, name, version),
        !.revision_uri = uri_create("artefact", host.name, name, revision)]

\* the needs a Service starts with: its host, its needs_services (a bare
\* name is qualified to the host), its needs_artefacts as .../current
service_needs(host, settings) ==
    {host.uri}
    \cup {IF n[1] \in ServicePrefixed THEN n ELSE uri_create("service", host.host, n[1], None)
            : n \in settings.needs_services}
    \cup {uri_create("artefact", host.host, n, "current") : n \in settings.needs_artefacts}

\* Service.__init__(host, name, settings)
Service(host, name, settings) ==
    [Component("service", host, name) EXCEPT
        !.cls = "Service",
        !.needs = service_needs(host, settings),
        !.state = state_description(settings.state)]

(***************************************************************************)
(* The registry: ComponentDict over a heap of component objects            *)
(***************************************************************************)

\* a store is the registry (key -> object) with the objects it refers to
EmptyStore == [reg |-> <<>>, heap |-> <<>>]

Keys(st) == DOMAIN st.reg

\* the component stored under key
At(st, key) == st.heap[st.reg[key]]

\* components.values(): one object per key
Values(st) == {At(st, k) : k \in Keys(st)}

\* ComponentDict.__setitem__ with a new object
SetNew(st, key, obj) ==
    [reg |-> [k \in Keys(st) \cup {key} |->
                 IF k = key THEN Len(st.heap) + 1 ELSE st.reg[k]],
     heap |-> Append(st.heap, obj)]

\* ComponentDict.__setitem__ with an object the heap holds already
SetOld(st, key, id) ==
    [st EXCEPT !.reg = [k \in Keys(st) \cup {key} |-> IF k = key THEN id ELSE st.reg[k]]]

\* a registry that fills in whatever its mode is
Lookup_always_adding(st, key, adding) ==
    IF key \notin Keys(st) THEN SetNew(st, key, MissingComponent(key)) ELSE st

\* ComponentDict.__getitem__ / get: the store after the lookup of key
Lookup(st, key, adding) ==
    IF key \notin Keys(st) /\ adding
    THEN SetNew(st, key, MissingComponent(key))
    ELSE st

(***************************************************************************)
(* status.py: what a host answers                                          *)
(***************************************************************************)

\* the hosts status() is called for, by the name given (FQDN as labels)
Targets == {<<"h1", "domain">>, <<"h2", "domain">>}

\* the other target host
Peer(hostname) == IF hostname = "h1" THEN "h2" ELSE "h1"

NoSettings == [needs_services |-> {}, needs_artefacts |-> {}, state |-> 0]

\* the decoded yadt-status answers a host may give; next_artefacts are the
\* updates on offer, so a name/version is listed once in a record
HostRecords(fqdn) ==
    LET bare == [fqdn |-> fqdn, hostname |-> fqdn[1],
                 services |-> <<>>, services_type |-> "dict", services_list |-> <<>>,
                 current_artefacts |-> <<>>, next_artefacts |-> <<>>,
                 lockstate |-> NoLockstate]
        app  == [bare EXCEPT
                    !.services = [n \in {"be", "fe"} |->
                        IF n = "be" THEN NoSettings
                        ELSE [NoSettings EXCEPT !.needs_services = {<<"be">>},
                                                !.needs_artefacts = {"app"}]],
                    !.current_artefacts = <<(<<"app", "1">>)>>]
        upd  == [bare EXCEPT
                    !.services = [n \in {"fe"} |->
                        [NoSettings EXCEPT
                            !.needs_services = {<<"service", Peer(fqdn[1]), "be">>},
                            !.needs_artefacts = {"app", "lib"},
                            !.state = 1]],
                    !.current_artefacts = <<(<<"app", "1">>)>>,
                    !.next_artefacts = <<(<<"app", "2">>)>>]
        far  == [bare EXCEPT
                    !.services = [n \in {"fe"} |->
                        [NoSettings EXCEPT
                            !.needs_services = {<<"service", "h3", "x">>,
                                                <<"service", "h3", "y">>}]]]
        two  == [app EXCEPT !.current_artefacts = <<(<<"app", "1">>), (<<"app", "2">>)>>]
        odd  == [bare EXCEPT
                    !.services = [n \in {"fe"} |->
                        [NoSettings EXCEPT
                            !.needs_services = {<<"be">>, <<"servicedb">>,
                                                <<"services", Peer(fqdn[1]), "be">>}]]]
        \* the name the host gives itself is not the first label of its FQDN
        alias  == [bare EXCEPT !.hostname = "www"]
        \* the obsolete form of services: a list of single-entry maps
        legacy == [app EXCEPT
                      !.services = <<>>,
                      !.services_type = "list",
                      !.services_list = <<[name |-> "be", settings |-> app.services["be"]],
                                          [name |-> "fe", settings |-> app.services["fe"]]>>]
        legacy0 == [bare EXCEPT !.services_type = "list"]
        \* locked by the user of the shell, by another user, by nobody named
        mine   == [bare EXCEPT !.lockstate = Lockstate(3, UserOwner)]
        theirs == [bare EXCEPT !.lockstate = Lockstate(3, "you@shell")]
        nobody == [bare EXCEPT !.lockstate = Lockstate(0, None)]
    IN  IF fqdn \in Targets
        THEN {bare, app, upd, far, two, odd, alias, legacy, legacy0, mine, theirs, nobody}
        ELSE {bare, app}

\* yadtshell.twisted.report_error: logs the failure and hands it on
report_error(failure) == failure

\* exit codes of the remote yadt-status
StatusExitCodes == {0, 1, 127, 255}

\* the body of a status-ignored answer
IgnoredMessages == {"maintenance"}

(***************************************************************************)
(* status.py: the callbacks as operators on the registry                   *)
(***************************************************************************)

\* create_host raises what set_attrs_from_data raises, and stores no host
create_host_raises(data) == hostname_warning_raises(Host(data.fqdn), data)

\* create_host for a protocol that carries the decoded data
create_host(st, data) ==
    LET host == set_attrs_from_data(Host(data.fqdn), data)
    IN  SetNew(st, host.uri, host)

RECURSIVE add_services(_, _, _)
add_services(st, hostId, names) ==
    IF names = {} THEN st
    ELSE LET name == CHOOSE n \in names : TRUE
             host == st.heap[hostId]
             service == Service(host, name, host.services[name])
             st1 == SetNew(st, service.uri, service)
             st2 == [st1 EXCEPT !.heap[hostId].defined_services =
                                    Append(@, Len(st1.heap))]
         IN  add_services(st2, hostId, names \ {name})

\* initialize_services calls host.services.items(), which a list has not
initialize_services_raises(st, hostId) ==
    ~not_up(st.heap[hostId].state) /\ st.heap[hostId].services_type = "list"

\* initialize_services(host, components)
initialize_services(st, hostId) ==
    IF not_up(st.heap[hostId].state) THEN st
    ELSE add_services(st, hostId, DOMAIN st.heap[hostId].services)

\* add_artefact(components, host, name_version, revision)
add_artefact(st, hostId, name_version, revision) ==
    LET artefact == Artefact(st.heap[hostId], name_version[1], name_version[2], revision)
        st1 == SetNew(st, artefact.uri, artefact)
    IN  SetOld(st1, artefact.revision_uri, Len(st1.heap))

RECURSIVE add_artefacts(_, _, _, _)
add_artefacts(st, hostId, list, revision) ==
    IF list = <<>> THEN st
    ELSE add_artefacts(add_artefact(st, hostId, Head(list), revision),
                       hostId, Tail(list), revision)

\* initialize_artefacts(host, components)
initialize_artefacts(st, hostId) ==
    LET host == st.heap[hostId]
    IN  add_artefacts(add_artefacts(st, hostId, host.current_artefacts, "current"),
                      hostId, host.next_artefacts, "next")

\* a handler that reads the global setting only
downgrades_failure_by_setting_only(exitCode, settings_flag, argument_flag) ==
    exitCode = 255 /\ settings_flag

\* a handler that downgrades every failing exit code
downgrades_failure_of_any_exit(exitCode, settings_flag, argument_flag) ==
    exitCode # 0 /\ (settings_flag \/ argument_flag)

\* handle_failing_status: whether the failure is turned into an UnreachableHost
downgrades_failure(exitCode, settings_flag, argument_flag) ==
    exitCode = 255 /\ (settings_flag \/ argument_flag)

\* a wiring loop that leaves the reverse edge out
add_needed_by_left_out(needed_by, uri) == needed_by

\* the wiring loop's reverse edge: needed_component.needed_by.add(component.uri)
add_needed_by(needed_by, uri) == needed_by \cup {uri}

RECURSIVE wire_needs(_, _, _, _)
\* the inner loop of the wiring for the component object c
wire_needs(st, c, todo, resolved) ==
    IF todo = {} THEN [st EXCEPT !.heap[c].needs = resolved]
    ELSE LET needed == CHOOSE n \in todo : TRUE
             st1 == Lookup(st, needed, TRUE)
             nid == st1.reg[needed]
             st2 == [st1 EXCEPT !.heap[nid].needed_by = add_needed_by(@, st1.heap[c].uri)]
         IN  wire_needs(st2, c, todo \ {needed}, resolved \cup {st2.heap[nid].uri})

RECURSIVE wire_components(_, _)
\* the wiring loop over components.values(), one object per key
wire_components(st, keys) ==
    IF keys = {} THEN st
    ELSE LET key == CHOOSE k \in keys : TRUE
             c == st.reg[key]
         IN  wire_components(wire_needs(st, c, st.heap[c].needs, {}), keys \ {key})

RECURSIVE add_to_dependents(_, _, _)
\* dependent_component.needs.add(component.uri), unknown dependents skipped
add_to_dependents(st, uri, dependents) ==
    IF dependents = {} THEN st
    ELSE LET d == CHOOSE x \in dependents : TRUE
             st1 == IF d \in Keys(st)
                    THEN [st EXCEPT !.heap[st.reg[d]].needs = @ \cup {uri}]
                    ELSE st
         IN  add_to_dependents(st1, uri, dependents \ {d})

RECURSIVE close_components(_, _)
\* the second loop of build_unified_dependencies_tree
close_components(st, keys) ==
    IF keys = {} THEN st
    ELSE LET key == CHOOSE k \in keys : TRUE
             component == At(st, key)
         IN  close_components(add_to_dependents(st, component.uri, component.needed_by),
                              keys \ {key})

\* the needs of the object c whose lookup raises: MissingComponent(needed)
\* parses the key, and the parser rejects it
raising_needs(st, c) ==
    {needed \in st.heap[c].needs : needed \notin Keys(st) /\ uri_rejected(needed)}

\* the wiring loop raises at some component
wiring_raises(st) == \E key \in Keys(st) : raising_needs(st, st.reg[key]) # {}

\* the registries the wiring loop may leave when it raises: the components
\* wired before are any of those that wire without error, and the component
\* it raises at has any of its other needs looked up, its needs not yet
\* rewritten
wiring_interrupted(st) ==
    LET wireable == {key \in Keys(st) : /\ st.heap[st.reg[key]].needs # {}
                                       /\ raising_needs(st, st.reg[key]) = {}}
        raising == {st.reg[key] : key \in {k \in Keys(st) : raising_needs(st, st.reg[k]) # {}}}
    IN  {[wire_needs(wire_components(st, done), c, looked_up, {})
            EXCEPT !.heap[c].needs = st.heap[c].needs] :
            <<done, c, looked_up>> \in
                {x \in (SUBSET wireable) \X raising \X (SUBSET (UNION {st.heap[c].needs : c \in raising})) :
                    x[3] \subseteq (st.heap[x[2]].needs \ raising_needs(st, x[2]))}}

\* build_unified_dependencies_tree
build_unified_dependencies_tree(st) ==
    LET wired == wire_components(st, Keys(st))
    IN  close_components(wired, Keys(wired))

\* yadtshell.util.filter_missing_services: the keys of the missing services
filter_missing_services(st) ==
    {k \in Keys(st) : At(st, k).cls = "MissingComponent" /\ At(st, k).type = "service"}

RECURSIVE SetToSeq(_)
SetToSeq(S) ==
    IF S = {} THEN <<>>
    ELSE LET x == CHOOSE y \in S : TRUE IN <<x>> \o SetToSeq(S \ {x})

\* fetch_missing_hosts: the hosts it queries, one query per missing service
hosts_to_fetch(st) ==
    LET missings == SetToSeq(filter_missing_services(st))
        unknown == SelectSeq(missings,
                      LAMBDA k : <<"host", At(st, k).host>> \notin Keys(st))
    IN  [i \in 1..Len(unknown) |-> <<At(st, unknown[i]).host>>]

\* a substitution that starts the ReadonlyService without dependents
inherited_needed_by_dropped(missing) == {}

\* fetch_missing_services_as_readonly: the needed_by the ReadonlyService gets
inherited_needed_by(missing) == missing.needed_by

RECURSIVE substitute_readonly(_, _)
\* the loop of fetch_missing_services_as_readonly over the missing services
substitute_readonly(st, keys) ==
    IF keys = {} THEN st
    ELSE LET key == CHOOSE k \in keys : TRUE
             missing == At(st, key)
             host_key == <<"host", missing.host>>
             host == IF host_key \in Keys(st) THEN At(st, host_key)
                     ELSE Host(<<missing.host>>)
             readonly_service == [ReadonlyService(host, missing.name) EXCEPT
                                     !.needed_by = inherited_needed_by(missing)]
             st1 == SetNew(st, missing.uri, readonly_service)
         IN  substitute_readonly(st1, keys \ {key})

RECURSIVE store_states(_, _)
\* handle_readonly_service_states
store_states(st, results) ==
    IF results = <<>> THEN st
    ELSE LET r == Head(results)
             actual_state == IF r.code = 0 THEN "up" ELSE "down"
         IN  store_states([st EXCEPT !.heap[st.reg[r.uri]].state = actual_state],
                          Tail(results))

(***************************************************************************)
(* status.py: the pipeline of status()                                     *)
(***************************************************************************)

\* a probe of a host: query_status is pending, nothing answered, no exit code
\* yet, no exception raised, no hostname decoded
NewProbe(component_name) ==
    [name |-> component_name, pc |-> "query", result |-> "-", answer |-> None, code |-> NoExit,
     error |-> None, hostname |-> None]

\* status() is called after an earlier run has left its snapshot
StatusStart ==
    /\ components = EmptyStore
    /\ add_when_missing = FALSE
    /\ settings_ignore_unreachable_hosts \in BOOLEAN
    /\ kwargs_ignore_unreachable_hosts \in BOOLEAN
    /\ deferreds = <<>>
    /\ phase = "called"
    /\ missing_deferreds = <<>>
    /\ readonly_deferreds = <<>>
    /\ spawned = <<>>
    /\ snapshot = "earlier"

\* no status() is running
PipelineRest ==
    /\ settings_ignore_unreachable_hosts = FALSE
    /\ kwargs_ignore_unreachable_hosts = FALSE
    /\ deferreds = <<>>
    /\ phase = "rest"
    /\ missing_deferreds = <<>>
    /\ readonly_deferreds = <<>>
    /\ spawned = <<>>
    /\ snapshot = "absent"

StatusRest ==
    /\ components = EmptyStore
    /\ add_when_missing = FALSE
    /\ PipelineRest

\* what an action of the pipeline leaves alone, but for the status variables
OtherFrame == UNCHANGED <<commandVars, updateVars, componentVars, registryVars,
                          settings_ignore_unreachable_hosts, kwargs_ignore_unreachable_hosts>>

\* the same for the callbacks, which do not touch the snapshot
StatusFrame == OtherFrame /\ UNCHANGED snapshot

\* a prelude that leaves the snapshot of the earlier run where it is
StatusCalled_keeping_snapshot ==
    /\ phase = "called"
    /\ deferreds' = [t \in Targets |-> NewProbe(t)]
    /\ phase' = "hosts"
    /\ UNCHANGED <<components, add_when_missing, missing_deferreds, readonly_deferreds,
                   spawned, snapshot>>
    /\ OtherFrame

\* status(): os.remove of current_state.components, then one
\* query_and_initialize_host per target
StatusCalled ==
    /\ phase = "called"
    /\ snapshot' = "absent"
    /\ deferreds' = [t \in Targets |-> NewProbe(t)]
    /\ phase' = "hosts"
    /\ UNCHANGED <<components, add_when_missing, missing_deferreds, readonly_deferreds,
                   spawned>>
    /\ OtherFrame

\* a DeferredList that fires at once
Settled_unawaited(ds) == TRUE

\* the DeferredList of ds has fired: every deferred of it has its result
Settled(ds) == \A i \in DOMAIN ds : ds[i].pc = "done"

\* a handler that gives the ignored host a service of its own
record_ignored_host_with_service(st, component_name, message) ==
    LET ignored_host == IgnoredHost(component_name, message)
        service == Service(ignored_host, "be", NoSettings)
    IN  SetNew(SetNew(st, ignored_host.uri, ignored_host), service.uri, service)

\* handle_ignored_status with an answer: the IgnoredHost is recorded, and
\* handed on to the callbacks of the branch
record_ignored_host(st, component_name, message) ==
    LET ignored_host == IgnoredHost(component_name, message)
    IN  SetNew(st, ignored_host.uri, ignored_host)

\* handle_failing_status with the flag set: the UnreachableHost is recorded
record_unreachable_host(st, component_name) ==
    LET unreachable_host == UnreachableHost(component_name)
    IN  SetNew(st, unreachable_host.uri, unreachable_host)

\* query_status: the status-ignored call for a target ends
QueryEnds(t) ==
    /\ phase = "hosts"
    /\ deferreds[t].pc = "query"
    /\ \/ \E message \in IgnoredMessages :
            /\ LET recorded == record_ignored_host(components, t, message)
                   hostId == Len(recorded.heap)
               IN  components' = initialize_artefacts(
                                    initialize_services(recorded, hostId), hostId)
            /\ deferreds' = [deferreds EXCEPT ![t].pc = "done", ![t].result = "ok",
                                              ![t].answer = message]
            /\ UNCHANGED spawned
       \/ /\ spawned' = Append(spawned, [to |-> t, cmd |-> "yadt-status"])
          /\ deferreds' = [deferreds EXCEPT ![t].pc = "status"]
          /\ UNCHANGED components
    /\ UNCHANGED <<add_when_missing, phase, missing_deferreds, readonly_deferreds>>
    /\ StatusFrame

\* query_and_initialize_host: the yadt-status process of a target ends
StatusEnds(t) ==
    /\ phase = "hosts"
    /\ deferreds[t].pc = "status"
    /\ \E exitCode \in StatusExitCodes :
        IF exitCode = 0
        THEN \E data \in HostRecords(t) :
                LET created == create_host(components, data)
                    hostId == Len(created.heap)
                IN  IF create_host_raises(data)
                    THEN /\ deferreds' = [deferreds EXCEPT
                                             ![t].pc = "done", ![t].code = exitCode,
                                             ![t].hostname = data.hostname,
                                             ![t].result = report_error("failed"),
                                             ![t].error = "ValueError"]
                         /\ UNCHANGED components
                    ELSE IF initialize_services_raises(created, hostId)
                    THEN /\ deferreds' = [deferreds EXCEPT
                                             ![t].pc = "done", ![t].code = exitCode,
                                             ![t].hostname = data.hostname,
                                             ![t].result = report_error("failed"),
                                             ![t].error = "AttributeError"]
                         /\ components' = created
                    ELSE /\ components' = initialize_artefacts(
                                             initialize_services(created, hostId), hostId)
                         /\ deferreds' = [deferreds EXCEPT
                                             ![t].pc = "done", ![t].result = "ok",
                                             ![t].hostname = data.hostname,
                                             ![t].code = exitCode]
        ELSE IF downgrades_failure(exitCode, settings_ignore_unreachable_hosts,
                                   kwargs_ignore_unreachable_hosts)
        THEN /\ LET recorded == record_unreachable_host(components, t)
                    hostId == Len(recorded.heap)
                IN  components' = initialize_artefacts(
                                     initialize_services(recorded, hostId), hostId)
             /\ deferreds' = [deferreds EXCEPT ![t].pc = "done", ![t].result = "ok",
                                               ![t].code = exitCode]
        ELSE /\ deferreds' = [deferreds EXCEPT ![t].pc = "done",
                                               ![t].result = report_error("failed"),
                                               ![t].code = exitCode]
             /\ UNCHANGED components
    /\ UNCHANGED <<add_when_missing, phase, missing_deferreds, readonly_deferreds, spawned>>
    /\ StatusFrame

\* a check that lets every response pass
all_ok_unchecked(responses) == TRUE

\* check_responses: no response of the DeferredList is an error
all_ok(responses) == \A t \in DOMAIN responses : responses[t].result # "failed"

\* check_responses, once every branch has ended
CheckResponses ==
    /\ phase = "hosts"
    /\ Settled(deferreds)
    /\ phase' = IF all_ok(deferreds) THEN "checked" ELSE "failed"
    /\ UNCHANGED <<components, add_when_missing, deferreds, missing_deferreds,
                   readonly_deferreds, spawned>>
    /\ StatusFrame

\* build_unified_dependencies_tree
BuildUnifiedDependenciesTree ==
    /\ phase = "checked"
    /\ IF wiring_raises(components)
       THEN /\ components' \in wiring_interrupted(components)
            /\ add_when_missing' = TRUE
            /\ phase' = "wiring_failed"
       ELSE /\ components' = build_unified_dependencies_tree(components)
            /\ add_when_missing' = FALSE
            /\ phase' = "wired"
    /\ UNCHANGED <<deferreds, missing_deferreds, readonly_deferreds, spawned>>
    /\ StatusFrame

\* fetch_missing_hosts: one query_status per missing service on an unknown host
FetchMissingHosts ==
    /\ phase = "wired"
    /\ missing_deferreds' = [i \in DOMAIN hosts_to_fetch(components) |->
                                NewProbe(hosts_to_fetch(components)[i])]
    /\ phase' = "missing_hosts"
    /\ UNCHANGED <<components, add_when_missing, deferreds, readonly_deferreds, spawned>>
    /\ StatusFrame

\* the status-ignored call of a re-probe ends
MissingQueryEnds(i) ==
    /\ phase = "missing_hosts"
    /\ missing_deferreds[i].pc = "query"
    /\ LET name == missing_deferreds[i].name
       IN  \/ \E message \in IgnoredMessages :
                /\ components' = record_ignored_host(components, name, message)
                /\ missing_deferreds' = [missing_deferreds EXCEPT
                                            ![i].pc = "done", ![i].result = "ok",
                                            ![i].answer = message]
                /\ UNCHANGED spawned
           \/ /\ spawned' = Append(spawned, [to |-> name, cmd |-> "yadt-status"])
              /\ missing_deferreds' = [missing_deferreds EXCEPT ![i].pc = "status"]
              /\ UNCHANGED components
    /\ UNCHANGED <<add_when_missing, phase, deferreds, readonly_deferreds>>
    /\ StatusFrame

\* the yadt-status process of a re-probe ends: create_host or
\* handle_failing_status(failure, components)
MissingStatusEnds(i) ==
    /\ phase = "missing_hosts"
    /\ missing_deferreds[i].pc = "status"
    /\ LET name == missing_deferreds[i].name
       IN  \E exitCode \in StatusExitCodes :
            IF exitCode = 0
            THEN \E data \in HostRecords(name) :
                    IF create_host_raises(data)
                    THEN /\ missing_deferreds' = [missing_deferreds EXCEPT
                                                     ![i].pc = "done", ![i].code = exitCode,
                                                     ![i].hostname = data.hostname,
                                                     ![i].result = report_error("failed"),
                                                     ![i].error = "ValueError"]
                         /\ UNCHANGED components
                    ELSE /\ components' = create_host(components, data)
                         /\ missing_deferreds' = [missing_deferreds EXCEPT
                                                     ![i].pc = "done", ![i].result = "ok",
                                                     ![i].hostname = data.hostname,
                                                     ![i].code = exitCode]
            ELSE IF downgrades_failure(exitCode, settings_ignore_unreachable_hosts, FALSE)
            THEN /\ components' = record_unreachable_host(components, name)
                 /\ missing_deferreds' = [missing_deferreds EXCEPT
                                             ![i].pc = "done", ![i].result = "ok",
                                             ![i].code = exitCode]
            ELSE /\ missing_deferreds' = [missing_deferreds EXCEPT
                                             ![i].pc = "done",
                                             ![i].result = report_error("failed"),
                                             ![i].code = exitCode]
                 /\ UNCHANGED components
    /\ UNCHANGED <<add_when_missing, phase, deferreds, readonly_deferreds, spawned>>
    /\ StatusFrame

\* fetch_missing_services_as_readonly, once every re-probe has ended:
\* each missing service is replaced and its status process spawned
FetchMissingServicesAsReadonly ==
    /\ phase = "missing_hosts"
    /\ Settled(missing_deferreds)
    /\ LET missings == filter_missing_services(components)
           order == SetToSeq(missings)
           uris == [i \in DOMAIN order |-> At(components, order[i]).uri]
       IN  /\ components' = substitute_readonly(components, missings)
           /\ readonly_deferreds' = [i \in DOMAIN uris |->
                                        [uri |-> uris[i], pc |-> "status", code |-> NoExit]]
           /\ spawned' = spawned \o [i \in DOMAIN uris |->
                                        [to |-> <<uris[i][2]>>, cmd |-> "yadt-service-status"]]
    /\ phase' = "readonly"
    /\ UNCHANGED <<add_when_missing, deferreds, missing_deferreds>>
    /\ StatusFrame

\* the status process of a ReadonlyService ends
ReadonlyStatusEnds(i) ==
    /\ phase = "readonly"
    /\ readonly_deferreds[i].pc = "status"
    /\ \E exitCode \in {0, 1} :
        readonly_deferreds' = [readonly_deferreds EXCEPT ![i].pc = "done", ![i].code = exitCode]
    /\ UNCHANGED <<components, add_when_missing, phase, deferreds, missing_deferreds, spawned>>
    /\ StatusFrame

\* handle_readonly_service_states, once every status process has ended
HandleReadonlyServiceStates ==
    /\ phase = "readonly"
    /\ Settled(readonly_deferreds)
    /\ components' = store_states(components, readonly_deferreds)
    /\ phase' = "states"
    /\ UNCHANGED <<add_when_missing, deferreds, missing_deferreds, readonly_deferreds, spawned>>
    /\ StatusFrame

\* a persistence that writes the manifests only
StoreStatusLocally_without_snapshot ==
    /\ phase = "states"
    /\ phase' = "stored"
    /\ UNCHANGED <<components, add_when_missing, deferreds, missing_deferreds,
                   readonly_deferreds, spawned, snapshot>>
    /\ OtherFrame

\* store_status_locally: the manifests, the pickled registry, the broadcast
StoreStatusLocally ==
    /\ phase = "states"
    /\ snapshot' = "written"
    /\ phase' = "stored"
    /\ UNCHANGED <<components, add_when_missing, deferreds, missing_deferreds,
                   readonly_deferreds, spawned>>
    /\ OtherFrame

Next ==
    \/ StatusCalled
    \/ \E t \in Targets : QueryEnds(t)
    \/ \E t \in Targets : StatusEnds(t)
    \/ CheckResponses
    \/ BuildUnifiedDependenciesTree
    \/ FetchMissingHosts
    \/ \E i \in DOMAIN missing_deferreds : MissingQueryEnds(i)
    \/ \E i \in DOMAIN missing_deferreds : MissingStatusEnds(i)
    \/ FetchMissingServicesAsReadonly
    \/ \E i \in DOMAIN readonly_deferreds : ReadonlyStatusEnds(i)
    \/ HandleReadonlyServiceStates
    \/ StoreStatusLocally

(***************************************************************************)
(* components.py: lookups in the ComponentDict                             *)
(***************************************************************************)

\* the keys looked up: a string, or a component whose uri is taken
StringKey(uri) == [form |-> "string", uri |-> uri]
ComponentKey(component) == [form |-> "component", uri |-> component.uri]

\* ComponentDict._key_
dict_key(key) == key.uri

\* the uris looked up: of a host, a service and an artefact the registry may
\* hold, and of ones it does not hold
LookupUris ==
    {<<"host", "h1">>, <<"artefact", "h1", "app", "current">>,
     <<"service", "h9", "x">>, <<"artefact", "h1", "lib", "current">>}

LookupKeys ==
    {StringKey(u) : u \in LookupUris}
    \cup {ComponentKey(MissingComponent(u)) : u \in LookupUris}

NoCall == [op |-> "", key |-> StringKey(<<>>), adding |-> FALSE, n |-> 0]
NoReturn == [raised |-> None, value |-> 0]

\* get's default=None
Default == 0

\* the registries a lookup starts on: a new one, and the one of a host with
\* services and an artefact
StartRegistries ==
    {EmptyStore} \cup
    {initialize_artefacts(initialize_services(create_host(EmptyStore, data), 1), 1) :
        data \in {r \in HostRecords(<<"h1", "domain">>) : r.current_artefacts # <<>>}}

RegistryStart ==
    /\ components \in StartRegistries
    /\ add_when_missing \in BOOLEAN
    /\ PipelineRest
    /\ d_call = NoCall
    /\ d_ret = NoReturn
    /\ d_before = EmptyStore

RegistryRest ==
    /\ d_call = NoCall
    /\ d_ret = NoReturn
    /\ d_before = EmptyStore

\* __getitem__ logs 'missing ' + key before it inserts: str + component raises
getitem_log_raises(st, key, adding) ==
    dict_key(key) \notin Keys(st) /\ adding /\ key.form = "component"

\* dict.__getitem__(self, key): the object, or KeyError
dict_getitem(st, k) ==
    IF k \in Keys(st) THEN [raised |-> None, value |-> st.reg[k]]
    ELSE [raised |-> "KeyError", value |-> 0]

\* dict.get(self, key, default)
dict_get(st, k, default) ==
    [raised |-> None, value |-> IF k \in Keys(st) THEN st.reg[k] ELSE default]

RegistryFrame ==
    UNCHANGED <<commandVars, updateVars, componentVars, add_when_missing,
                settings_ignore_unreachable_hosts, kwargs_ignore_unreachable_hosts,
                deferreds, phase, missing_deferreds, readonly_deferreds, spawned,
                snapshot>>

\* ComponentDict.__getitem__(key)
DictGetItem(key) ==
    /\ d_call.n < MaxLookups
    /\ d_call' = [op |-> "getitem", key |-> key, adding |-> add_when_missing,
                  n |-> d_call.n + 1]
    /\ d_before' = components
    /\ IF getitem_log_raises(components, key, add_when_missing)
       THEN /\ components' = components
            /\ d_ret' = [raised |-> "TypeError", value |-> 0]
       ELSE /\ components' = Lookup(components, dict_key(key), add_when_missing)
            /\ d_ret' = dict_getitem(components', dict_key(key))
    /\ RegistryFrame

\* ComponentDict.get(key)
DictGet(key) ==
    /\ d_call.n < MaxLookups
    /\ d_call' = [op |-> "get", key |-> key, adding |-> add_when_missing,
                  n |-> d_call.n + 1]
    /\ d_before' = components
    /\ components' = Lookup(components, dict_key(key), add_when_missing)
    /\ d_ret' = dict_get(components', dict_key(key), Default)
    /\ RegistryFrame

\* components._add_when_missing_ = True / False
SetAddWhenMissing(b) ==
    /\ add_when_missing # b
    /\ add_when_missing' = b
    /\ UNCHANGED <<components, registryVars>>
    /\ UNCHANGED <<commandVars, updateVars, componentVars, settings_ignore_unreachable_hosts,
                   kwargs_ignore_unreachable_hosts, deferreds, phase,
                   missing_deferreds, readonly_deferreds, spawned, snapshot>>

RegistryNext ==
    \/ \E key \in LookupKeys : DictGetItem(key)
    \/ \E key \in LookupKeys : DictGet(key)
    \/ \E b \in BOOLEAN : SetAddWhenMissing(b)

(***************************************************************************)
(* Plans and their execution: ActionPlan, the planner of a command and the *)
(* DeferredPool.  yadtshell.actions, yadtshell.defer and the command line  *)
(* are not part of the sources at hand; they follow the specification and  *)
(* the unit and integration tests.                                         *)
(***************************************************************************)

\* yadtshell.actions.Action(cmd, uri)
Action(cmd, uri) == [cmd |-> cmd, uri |-> uri, preconditions |-> {}]

NoAction == [cmd |-> "", uri |-> <<>>, preconditions |-> {}]

\* how a precondition names the action it waits for
ActionId(action) == <<action.cmd, action.uri>>

\* yadtshell.actions.ActionPlan(name, actions)
ActionPlan(name, actions) == [name |-> name, actions |-> actions]

\* the services the plans of the unit tests act on
TestUris ==
    {<<"service", "cowsay", "service0">>,
     <<"service", "foobar", "service1">>,
     <<"service", "foobaz", "service2">>}

TestHosts == {uri_create("host", u[2], None, None) : u \in TestUris}

\* the lists of actions a test plan is constructed with, no action twice
TestPlans ==
    {p \in SeqsUpTo({Action("start", u) : u \in TestUris}, MaxActions) :
        \A i, j \in DOMAIN p : p[i] = p[j] => i = j}

RECURSIVE service_components(_, _)
\* the `components` of the unit tests: one service per uri
service_components(st, uris) ==
    IF uris = {} THEN st
    ELSE LET u == CHOOSE x \in uris : TRUE
         IN  service_components(SetNew(st, u, Service(Host(<<u[2]>>), u[3], NoSettings)),
                                uris \ {u})

\* a filter that keeps the actions on the hosts that are not handled
remove_actions_on_handled_hosts(actions, hosts, st) ==
    SelectSeq(actions, LAMBDA action : At(st, action.uri).host_uri \notin hosts)

\* ActionPlan.remove_actions_on_unhandled_hosts: the actions that stay
remove_actions_on_unhandled_hosts(actions, hosts, st) ==
    SelectSeq(actions, LAMBDA action : At(st, action.uri).host_uri \in hosts)

\* a plan that is never taken to be empty
plan_is_empty_never(actions) == FALSE

\* remove_actions_on_unhandled_hosts raises PlanEmpty
plan_is_empty(actions) == actions = <<>>

\* ---- the planner

\* the decoded yadt-status answer of a host with a backend service, a
\* frontend service that needs it, and an update on offer
StatusTemplate(fqdn) ==
    [fqdn |-> fqdn, hostname |-> fqdn[1],
     services |-> [n \in {"be", "fe"} |->
                      IF n = "be" THEN NoSettings
                      ELSE [NoSettings EXCEPT !.needs_services = {<<"be">>},
                                              !.needs_artefacts = {"app"}]],
     services_type |-> "dict", services_list |-> <<>>,
     current_artefacts |-> <<(<<"app", "1">>)>>,
     next_artefacts |-> <<(<<"app", "2">>)>>,
     lockstate |-> NoLockstate]

\* the hosts of the registry, by uri
HostUris(st) == {k \in Keys(st) : At(st, k).type = "host"}

\* the hosts that answered their status
ReachableHostUris(st) == {k \in HostUris(st) : At(st, k).cls = "Host"}

\* the services of the registry on a host
ServiceUris(st, host_uri) ==
    {k \in Keys(st) : At(st, k).cls = "Service" /\ At(st, k).host_uri = host_uri}

\* an update that does not wait for the services to be stopped
update_preconditions_none(services) == {}

\* the update of a host waits for the stop of each of its services
update_preconditions(services) == {<<"stop", s>> : s \in services}

\* update: per host stop(services), the update, the probe of the host,
\* start(services); a service stops after its dependents and starts after
\* the services it needs
host_update_plan(st, host_uri) ==
    LET services == ServiceUris(st, host_uri)
        stops == {[cmd |-> "stop", uri |-> s,
                   preconditions |-> {<<"stop", d>> : d \in {x \in services : s \in At(st, x).needs}}]
                    : s \in services}
        update == [cmd |-> "update", uri |-> host_uri,
                   preconditions |-> update_preconditions(services)]
        probe == [cmd |-> "probe", uri |-> host_uri,
                  preconditions |-> {<<"update", host_uri>>}]
        starts == {[cmd |-> "start", uri |-> s,
                    preconditions |-> {<<"probe", host_uri>>}
                        \cup {<<"start", d>> : d \in At(st, s).needs \cap services}]
                     : s \in services}
    IN  SetToSeq(stops) \o <<update, probe>> \o SetToSeq(starts)

RECURSIVE update_plan(_, _)
update_plan(st, host_uris) ==
    IF host_uris = {} THEN <<>>
    ELSE LET h == CHOOSE x \in host_uris : TRUE
         IN  host_update_plan(st, h) \o update_plan(st, host_uris \ {h})

\* lock: one action per selected host (host://*)
lock_plan(st) == SetToSeq({Action("lock", h) : h \in HostUris(st)})

\* the plan of a command over the registry
planned_actions(cmd, st) ==
    IF cmd = "update" THEN update_plan(st, ReachableHostUris(st)) ELSE lock_plan(st)

\* an implicit status that is not given the option of the command
implicit_status_kwargs_without_options(options) == FALSE

\* the ignore_unreachable_hosts a command hands to its implicit status
implicit_status_kwargs(options) == options.ignore_unreachable_hosts

\* ---- the DeferredPool

\* DeferredPool.Worker(name, next_task, handle_error): started counts run()
Worker(name) == [name |-> name, started |-> 0, task |-> NoAction]

\* 'pool-name_worker%d' % worker_id
worker_name(pool_name, worker_id) == pool_name \o "_worker" \o ToString(worker_id)

\* a pool with one worker more than asked for
create_workers_one_more(pool_name, nr_workers) ==
    [i \in 1..(nr_workers + 1) |-> [Worker(worker_name(pool_name, i - 1)) EXCEPT !.started = 1]]

\* DeferredPool.__init__: the workers, each run() once
create_workers(pool_name, nr_workers) ==
    [i \in 1..nr_workers |-> [Worker(worker_name(pool_name, i - 1)) EXCEPT !.started = 1]]

NoArg == [message |-> "", code |-> 0]

\* yadtshell.actions.ActionException(message, code)
ActionException(message, code) == [message |-> message, code |-> code]

\* reactor.callLater(delay, f, arg)
callLater(delay, f, arg) == [delay |-> delay, f |-> f, arg |-> arg]

NotFired == callLater(0, "", NoArg)

\* a constructor that leaves the deferred of an empty pool pending
callback_when_empty_left_out(queue) == <<>>

\* DeferredPool.__init__ with an empty queue: reactor.callLater(0, pool.callback)
callback_when_empty(queue) ==
    IF queue = <<>> THEN <<callLater(0, "callback", NoArg)>> ELSE <<>>

NoPool ==
    [created |-> FALSE, name |-> "", tasks |-> <<>>, queue |-> <<>>, workers |-> <<>>,
     error_count |-> 0, done |-> {}, finished |-> FALSE]

\* DeferredPool(name, queue, nr_workers)
DeferredPool(name, queue, nr_workers) ==
    [created |-> TRUE, name |-> name, tasks |-> queue, queue |-> queue,
     workers |-> create_workers(name, nr_workers),
     error_count |-> 0, done |-> {}, finished |-> queue = <<>>]

\* a task is ready when the actions it waits for have succeeded
is_ready(task, done) == task.preconditions \subseteq done

\* DeferredPool._next_task: the position of the first ready task, 0 if none
next_task(queue, done) ==
    IF \E i \in DOMAIN queue : is_ready(queue[i], done)
    THEN CHOOSE i \in DOMAIN queue :
            /\ is_ready(queue[i], done)
            /\ \A j \in 1..(i - 1) : ~is_ready(queue[j], done)
    ELSE 0

\* the queue without its element at position i
without(queue, i) == SubSeq(queue, 1, i - 1) \o SubSeq(queue, i + 1, Len(queue))

\* DeferredPool._handle_error: the failure is counted, the pool goes on
handle_error(p) == [p EXCEPT !.error_count = @ + 1]

\* a _finish that fires the callback whatever happened
finish_with_callback(p) == callLater(0, "callback", NoArg)

\* DeferredPool._finish: the errback with the number of actions that failed
\* or were left in the queue, the callback when there is none
finish(p) ==
    LET nr == p.error_count + Len(p.queue)
    IN  IF nr > 0
        THEN callLater(0, "errback",
                       ActionException("Could not execute " \o ToString(nr) \o " action(s)", nr))
        ELSE callLater(0, "callback", NoArg)

\* the hosts whose commands are logged
LogHosts == {u[2] : u \in TestUris} \cup {t[1] : t \in Targets}

\* a command started or ended on the host of uri
logged(log, cmd, uri, event, code) ==
    [log EXCEPT ![uri[2]] = Append(@, [cmd |-> cmd, uri |-> uri, event |-> event, code |-> code])]

RECURSIVE logged_all(_, _, _, _, _)
logged_all(log, cmd, uris, event, code) ==
    IF uris = {} THEN log
    ELSE LET u == CHOOSE x \in uris : TRUE
         IN  logged_all(logged(log, cmd, u, event, code), cmd, uris \ {u}, event, code)

\* exit codes of the remote command of an action
ActionExitCodes == {0, 1}

\* exit codes of the yadt-status of the implicit status
ImplicitStatusExitCodes == {0, 255}

\* nothing of the pipeline of status() but its registry, its flag and its
\* branches is used by a command
CommandStatusRest ==
    /\ add_when_missing = FALSE
    /\ settings_ignore_unreachable_hosts = FALSE
    /\ phase = "rest"
    /\ missing_deferreds = <<>>
    /\ readonly_deferreds = <<>>
    /\ spawned = <<>>
    /\ snapshot = "absent"

PoolRest ==
    /\ command = [cmd |-> None, ignore_unreachable_hosts |-> FALSE, nr_workers |-> 0]
    /\ plan = ActionPlan("", <<>>)
    /\ plan_given = <<>>
    /\ handled_hosts = {}
    /\ plan_state = "rest"
    /\ pool = NoPool
    /\ reactor = <<>>
    /\ pool_result = NotFired
    /\ host_log = <<>>
    /\ exit_code = NoExit

\* a plan as the unit tests construct it, or a command line
PoolStart ==
    /\ pool = NoPool
    /\ reactor = <<>>
    /\ pool_result = NotFired
    /\ host_log = [h \in LogHosts |-> <<>>]
    /\ exit_code = NoExit
    /\ kwargs_ignore_unreachable_hosts = FALSE
    /\ deferreds = <<>>
    /\ CommandStatusRest
    /\ \/ /\ command \in [cmd : {None}, ignore_unreachable_hosts : {FALSE},
                          nr_workers : 1..MaxWorkers]
          /\ plan_given \in TestPlans
          /\ plan = ActionPlan("plan", plan_given)
          /\ handled_hosts \in SUBSET TestHosts
          /\ plan_state = "new"
          /\ components = service_components(EmptyStore, TestUris)
       \/ /\ command \in [cmd : {"lock", "update"}, ignore_unreachable_hosts : BOOLEAN,
                          nr_workers : 1..MaxWorkers]
          /\ plan_given = <<>>
          /\ plan = ActionPlan(command.cmd, <<>>)
          /\ handled_hosts = {}
          /\ plan_state = "command"
          /\ components = EmptyStore

PoolFrame ==
    UNCHANGED <<updateVars, componentVars, registryVars, doVars, add_when_missing,
                settings_ignore_unreachable_hosts, phase, missing_deferreds,
                readonly_deferreds, spawned, snapshot, command, plan_given>>

\* the command calls status(ignore_unreachable_hosts=...) for its targets
ImplicitStatus ==
    /\ plan_state = "command"
    /\ kwargs_ignore_unreachable_hosts' = implicit_status_kwargs(command)
    /\ deferreds' = [t \in Targets |-> [NewProbe(t) EXCEPT !.pc = "status"]]
    /\ host_log' = logged_all(host_log, "status",
                              {uri_create("host", t[1], None, None) : t \in Targets},
                              "start", NoExit)
    /\ plan_state' = "status"
    /\ UNCHANGED <<components, plan, handled_hosts, pool, reactor, pool_result, exit_code>>
    /\ PoolFrame

\* the yadt-status process of a target ends: create_host and
\* initialize_services, or handle_failing_status
ImplicitStatusEnds(t) ==
    /\ plan_state = "status"
    /\ deferreds[t].pc = "status"
    /\ \E exitCode \in ImplicitStatusExitCodes :
        /\ IF exitCode = 0
           THEN LET created == create_host(components, StatusTemplate(t))
                IN  /\ components' = initialize_services(created, Len(created.heap))
                    /\ deferreds' = [deferreds EXCEPT ![t].pc = "done", ![t].result = "ok",
                                                      ![t].code = exitCode]
           ELSE IF downgrades_failure(exitCode, settings_ignore_unreachable_hosts,
                                      kwargs_ignore_unreachable_hosts)
           THEN /\ components' = record_unreachable_host(components, t)
                /\ deferreds' = [deferreds EXCEPT ![t].pc = "done", ![t].result = "ok",
                                                  ![t].code = exitCode]
           ELSE /\ deferreds' = [deferreds EXCEPT ![t].pc = "done",
                                                  ![t].result = report_error("failed"),
                                                  ![t].code = exitCode]
                /\ UNCHANGED components
        /\ host_log' = logged(host_log, "status", uri_create("host", t[1], None, None),
                              "end", exitCode)
    /\ UNCHANGED <<kwargs_ignore_unreachable_hosts, plan, handled_hosts, plan_state, pool,
                   reactor, pool_result, exit_code>>
    /\ PoolFrame

\* the status has ended: the command fails with it, or its plan is made;
\* the handled hosts are the hosts that answered
PlanCommand ==
    /\ plan_state = "status"
    /\ Settled(deferreds)
    /\ IF all_ok(deferreds)
       THEN /\ plan' = ActionPlan(command.cmd, planned_actions(command.cmd, components))
            /\ handled_hosts' = ReachableHostUris(components)
            /\ plan_state' = "new"
            /\ UNCHANGED exit_code
       ELSE /\ plan_state' = "failed"
            /\ exit_code' = 1
            /\ UNCHANGED <<plan, handled_hosts>>
    /\ UNCHANGED <<components, kwargs_ignore_unreachable_hosts, deferreds, pool, reactor,
                   pool_result, host_log>>
    /\ PoolFrame

\* plan.remove_actions_on_unhandled_hosts(handled_hosts, components)
RemoveActionsOnUnhandledHosts ==
    /\ plan_state = "new"
    /\ LET actions == remove_actions_on_unhandled_hosts(plan.actions, handled_hosts, components)
       IN  IF plan_is_empty(actions)
           THEN /\ plan_state' = "PlanEmpty"
                /\ exit_code' = IF command.cmd = None THEN NoExit ELSE 1
                /\ UNCHANGED plan
           ELSE /\ plan' = [plan EXCEPT !.actions = actions]
                /\ plan_state' = "filtered"
                /\ UNCHANGED exit_code
    /\ UNCHANGED <<components, kwargs_ignore_unreachable_hosts, deferreds, handled_hosts,
                   pool, reactor, pool_result, host_log>>
    /\ PoolFrame

\* DeferredPool(name, queue=plan.actions, nr_workers=...); a command runs its
\* plan after the filter only
CreatePool ==
    /\ \/ plan_state = "filtered"
       \/ plan_state = "new" /\ command.cmd = None
    /\ pool' = DeferredPool("pool-name", plan.actions, command.nr_workers)
    /\ reactor' = callback_when_empty(plan.actions)
    /\ plan_state' = "queued"
    /\ UNCHANGED <<components, kwargs_ignore_unreachable_hosts, deferreds, plan,
                   handled_hosts, pool_result, host_log, exit_code>>
    /\ PoolFrame

\* Worker.run: an idle worker takes the next task and spawns its command
WorkerRuns(w) ==
    /\ pool.created
    /\ w \in DOMAIN pool.workers
    /\ pool.workers[w].task = NoAction
    /\ next_task(pool.queue, pool.done) # 0
    /\ LET i == next_task(pool.queue, pool.done)
           task == pool.queue[i]
       IN  /\ pool' = [pool EXCEPT !.queue = without(pool.queue, i),
                                   !.workers[w].task = task]
           /\ host_log' = logged(host_log, task.cmd, task.uri, "start", NoExit)
    /\ UNCHANGED <<components, kwargs_ignore_unreachable_hosts, deferreds, plan,
                   handled_hosts, plan_state, reactor, pool_result, exit_code>>
    /\ PoolFrame

\* the command of a worker's task ends
TaskEnds(w) ==
    /\ pool.created
    /\ w \in DOMAIN pool.workers
    /\ pool.workers[w].task # NoAction
    /\ \E exitCode \in ActionExitCodes :
        LET task == pool.workers[w].task
            idle == [pool EXCEPT !.workers[w].task = NoAction]
        IN  /\ pool' = IF exitCode = 0
                       THEN [idle EXCEPT !.done = @ \cup {ActionId(task)}]
                       ELSE handle_error(idle)
            /\ host_log' = logged(host_log, task.cmd, task.uri, "end", exitCode)
    /\ UNCHANGED <<components, kwargs_ignore_unreachable_hosts, deferreds, plan,
                   handled_hosts, plan_state, reactor, pool_result, exit_code>>
    /\ PoolFrame

\* no worker is busy and no task is ready: DeferredPool._finish
Finish ==
    /\ pool.created
    /\ ~pool.finished
    /\ \A w \in DOMAIN pool.workers : pool.workers[w].task = NoAction
    /\ next_task(pool.queue, pool.done) = 0
    /\ reactor' = Append(reactor, finish(pool))
    /\ pool' = [pool EXCEPT !.finished = TRUE]
    /\ UNCHANGED <<components, kwargs_ignore_unreachable_hosts, deferreds, plan,
                   handled_hosts, plan_state, pool_result, host_log, exit_code>>
    /\ PoolFrame

\* the reactor runs the call: the deferred of the pool fires, and with it
\* the command ends
ReactorCalls ==
    /\ reactor # <<>>
    /\ pool_result' = Head(reactor)
    /\ reactor' = Tail(reactor)
    /\ exit_code' = IF command.cmd = None THEN NoExit
                    ELSE IF Head(reactor).f = "callback" THEN 0 ELSE 1
    /\ UNCHANGED <<components, kwargs_ignore_unreachable_hosts, deferreds, plan,
                   handled_hosts, plan_state, pool, host_log>>
    /\ PoolFrame

PoolNext ==
    \/ ImplicitStatus
    \/ \E t \in Targets : ImplicitStatusEnds(t)
    \/ PlanCommand
    \/ RemoveActionsOnUnhandledHosts
    \/ CreatePool
    \/ \E w \in DOMAIN pool.workers : WorkerRuns(w)
    \/ \E w \in DOMAIN pool.workers : TaskEnds(w)
    \/ Finish
    \/ ReactorCalls

(***************************************************************************)
(* components.do: a command called on the components named                *)
(***************************************************************************)

\* the commands given to do()
DoCommands == {"lock", "stop", "ignore", "status"}

\* the methods among them that each class defines or inherits
Methods(cls) ==
    CASE cls = "Host"             -> {"lock", "ignore"}
      [] cls = "UnreachableHost"  -> {"ignore"}
      [] cls = "IgnoredHost"      -> {"lock", "ignore"}
      [] cls = "Service"          -> {"stop", "status", "ignore"}
      [] cls = "ReadonlyService"  -> {"stop", "status"}
      [] OTHER                    -> {}

\* a getattr that finds a method whatever the command is
has_method_always(component, cmd) == TRUE

\* inspect.ismethod(getattr(component, cmd, None))
has_method(component, cmd) == cmd \in Methods(component.cls)

\* yadtshell.uri.change_version(uri, version)
change_version(uri, version) == uri_create(uri[1], uri[2], uri[3], version)

\* the state a status has stored: a host with its services and artefacts,
\* and a host that was unreachable
StoredComponents ==
    LET host == create_host(EmptyStore, StatusTemplate(<<"h1", "domain">>))
    IN  record_unreachable_host(
            initialize_artefacts(initialize_services(host, 1), 1), <<"h2", "domain">>)

\* yadtshell.util.restore_current_state: the components, if a status has run
StoredStates ==
    {[stored |-> FALSE, components |-> EmptyStore],
     [stored |-> TRUE, components |-> StoredComponents]}

\* the component names given, as glob_hosts has expanded them
DoNames ==
    {<<"host", "h1">>, <<"host", "h2">>, <<"service", "h1", "fe">>,
     <<"artefact", "h1", "app">>, <<"service", "h9", "x">>}

\* components.get(component_name, None) or
\* components[change_version(component_name, 'current')]: the key found
component_key(st, component_name) ==
    IF component_name \in Keys(st) THEN component_name
    ELSE change_version(component_name, "current")

\* the lookup raises KeyError
component_unknown(st, component_name) == component_key(st, component_name) \notin Keys(st)

\* fun(**opts), and fun() after a TypeError: lock and ignore raise ValueError
\* without a message
fun_raises(component, cmd, opts) ==
    /\ not_message(opts.message)
    /\ \/ cmd = "ignore" /\ component.cls \in {"Host", "UnreachableHost", "IgnoredHost", "Service"}
       \/ cmd = "lock" /\ component.cls = "Host"

NotExited == [raised |-> None, code |-> NoExit]

\* sys.exit(code)
sys_exit(code) == [raised |-> "SystemExit", code |-> code]

DoRest ==
    /\ do_args = [cmd |-> "", component_names |-> <<>>]
    /\ do_opts = [message |-> NoMessage]
    /\ do_state = [stored |-> FALSE, components |-> EmptyStore]
    /\ do_pc = "rest"
    /\ do_i = 0
    /\ do_called = <<>>
    /\ do_exit = NotExited

DoStart ==
    /\ do_args \in [cmd : DoCommands, component_names : SeqsUpTo(DoNames, MaxNames)]
    /\ do_opts \in [message : {NoMessage, [some |-> TRUE, text |-> <<"a">>]}]
    /\ do_state \in StoredStates
    /\ do_pc = "called"
    /\ do_i = 0
    /\ do_called = <<>>
    /\ do_exit = NotExited

DoFrame ==
    UNCHANGED <<updateVars, componentVars, statusVars, registryVars, poolVars,
                do_args, do_opts, do_state>>

\* do(args, opts) up to its loop: no components given, or no state to restore
Do ==
    /\ do_pc = "called"
    /\ IF do_args.component_names = <<>> \/ ~do_state.stored
       THEN /\ do_exit' = sys_exit(1)
            /\ do_pc' = "ended"
            /\ UNCHANGED do_i
       ELSE /\ do_pc' = "loop"
            /\ do_i' = 1
            /\ UNCHANGED do_exit
    /\ UNCHANGED do_called
    /\ DoFrame

\* one turn of the loop over component_names
DoComponent ==
    /\ do_pc = "loop"
    /\ do_i \in DOMAIN do_args.component_names
    /\ LET component_name == do_args.component_names[do_i]
           st == do_state.components
           key == component_key(st, component_name)
       IN  IF component_unknown(st, component_name)
           THEN /\ do_exit' = [raised |-> "KeyError", code |-> NoExit]
                /\ do_pc' = "ended"
                /\ UNCHANGED <<do_i, do_called>>
           ELSE IF ~has_method(At(st, key), do_args.cmd)
           THEN /\ do_exit' = sys_exit(2)
                /\ do_pc' = "ended"
                /\ UNCHANGED <<do_i, do_called>>
           ELSE IF fun_raises(At(st, key), do_args.cmd, do_opts)
           THEN /\ do_exit' = [raised |-> "ValueError", code |-> NoExit]
                /\ do_pc' = "ended"
                /\ UNCHANGED <<do_i, do_called>>
           ELSE /\ do_called' = Append(do_called, <<do_args.cmd, key>>)
                /\ do_i' = do_i + 1
                /\ UNCHANGED <<do_pc, do_exit>>
    /\ DoFrame

\* the loop has ended: do returns
DoReturns ==
    /\ do_pc = "loop"
    /\ do_i > Len(do_args.component_names)
    /\ do_pc' = "ended"
    /\ UNCHANGED <<do_i, do_called, do_exit>>
    /\ DoFrame

DoNext ==
    \/ Do
    \/ DoComponent
    \/ DoReturns

(***************************************************************************)
(* Specifications                                                          *)
(***************************************************************************)
CommandRest == PoolRest /\ DoRest

UpdateInit == UpdateStart /\ ComponentRest /\ StatusRest /\ RegistryRest /\ CommandRest

SpecUpdate == UpdateInit /\ [][UpdateNext]_vars

ComponentInit == ComponentStart /\ UpdateRest /\ StatusRest /\ RegistryRest /\ CommandRest

SpecComponent == ComponentInit /\ [][ComponentNext]_vars

Init == StatusStart /\ UpdateRest /\ ComponentRest /\ RegistryRest /\ CommandRest

RegistryInit == RegistryStart /\ UpdateRest /\ ComponentRest /\ CommandRest

PoolInit == PoolStart /\ UpdateRest /\ ComponentRest /\ RegistryRest /\ DoRest

SpecPool == PoolInit /\ [][PoolNext]_vars

DoInit == DoStart /\ UpdateRest /\ ComponentRest /\ StatusRest /\ RegistryRest /\ PoolRest

SpecDo == DoInit /\ [][DoNext]_vars

SpecRegistry == RegistryInit /\ [][RegistryNext]_vars

Spec == Init /\ [][Next]_vars

(***************************************************************************)
(* Properties of Host.update (checked under SpecUpdate)                    *)
(***************************************************************************)

\* C3: after the update command exits 255, the number of 'uptime' poll
\* processes spawned never exceeds floor(ssh_poll_max_seconds / SSH_POLL_DELAY).
PollCountWithinFloor == u_polls <= u_max \div u_delay

\* what the guard of poll_rebooting_machine does bound: the first poll is
\* always spawned, a later one only while less than ssh_poll_max_seconds
\* have been waited
PollsSpawnedBeforeMaxSeconds ==
    \A i \in 2..Len(u_pollTimes) : u_pollTimes[i] < u_max

\* C4: when the update command exits 152 the returned deferred fails with the
\* ActionException carrying 152; when it exits with another non-zero code
\* than 255 the failure of the process is handed on; no poll is ever spawned
\* in either case.
RebootTimeoutFailsWithoutPoll ==
    u_exit \notin {-1, 0, 255} =>
        /\ u_polls = 0
        /\ u_pollTimes = <<>>
        /\ u_pc = "done"
        /\ u_result = IF u_exit = 152
                      THEN [kind |-> "ActionException", code |-> 152]
                      ELSE [kind |-> "failure", code |-> u_exit]

RebootTimeoutReached ==
    u_exit = 152 /\ u_pc = "done" /\ u_result.kind = "ActionException"

\* C5: when the update command exits 255 and a later poll exits 0, the
\* deferred of update succeeds, no poll is spawned after the successful one,
\* consecutive polls are SSH_POLL_DELAY apart and the seconds reported are
\* (number of polls) x SSH_POLL_DELAY.
RebootFlowSucceedsAfterPoll ==
    /\ \A i \in 1..(Len(u_pollTimes) - 1) : u_pollTimes[i + 1] - u_pollTimes[i] = u_delay
    /\ u_polls = Len(u_pollTimes)
    /\ u_okAt # 0 =>
        /\ u_exit = 255
        /\ u_pc = "done"
        /\ u_result = [kind |-> "ok", code |-> 0]
        /\ u_polls = u_okAt
        /\ u_reported = u_polls * u_delay

RebootSucceededAtThirdPoll ==
    u_okAt = 3 /\ u_pc = "done" /\ u_exit = 255 /\ u_delay = 2 /\ u_clock = 4

(***************************************************************************)
(* Properties of the component operations (checked under SpecComponent)    *)
(***************************************************************************)

\* C6: Host.ignore(message, retry_count) issues the status-ignored probe at
\* most retry_count + 1 times, for every sequence of probe failures.
IgnoreProbesWithinRetryCount ==
    (c_op = "ignore" /\ c_kind \in HostKinds) => i_probes <= c_args.retry_count + 1

\* C7: when every probe fails the deferred returned by Host.ignore fails, and
\* it does not succeed before the outcome of the probe is known.
IgnoreSurfacesProbeFailure ==
    (c_op = "ignore" /\ c_kind \in HostKinds) =>
        /\ (c_state = "succeeded" => i_inner = "answered")
        /\ (i_inner = "exception" => c_state = "failed")

\* lock or ignore was called with no message or with the empty string
EmptyMessageCall ==
    /\ c_op \in {"lock", "ignore"}
    /\ (c_args.message = NoMessage \/ Len(c_args.message.text) = 0)

NothingIssued ==
    /\ c_cmd = NoCommand
    /\ c_spawned = 0
    /\ c_sent = 0
    /\ i_probes = 0
    /\ i_stage = "idle"

\* C8 as claimed: lock and ignore without a message raise the invalid-argument
\* error and produce no remote command, on every class that offers them.
MessageIsMandatoryEverywhere ==
    EmptyMessageCall => (c_ret = "raised" /\ c_val = "ValueError" /\ NothingIssued)

\* C8 as amended: lock and ignore without a message raise ValueError and
\* produce no remote command on Host.lock, AbstractHost.ignore and
\* Service.ignore; IgnoredHost.lock produces no remote command either, but
\* succeeds with None.
MessageIsMandatoryButOnIgnoredHostLock ==
    EmptyMessageCall =>
        /\ NothingIssued
        /\ IF c_kind = "IgnoredHost" /\ c_op = "lock"
           THEN c_ret = "deferred" /\ c_state = "succeeded" /\ c_val = None
           ELSE c_ret = "raised" /\ c_val = "ValueError"

HostLockWithEmptyMessageRaised ==
    /\ c_kind = "Host"
    /\ c_op = "lock"
    /\ c_args.message = [some |-> TRUE, text |-> <<>>]
    /\ c_ret = "raised"

\* C9: on an IgnoredHost lock and unlock succeed with None and neither spawn
\* a process nor return a remote command, for every message and force.
IgnoredHostShortCircuit ==
    (c_kind = "IgnoredHost" /\ c_op \in {"lock", "unlock"}) =>
        /\ c_ret = "deferred"
        /\ c_state = "succeeded"
        /\ c_val = None
        /\ c_cmd = NoCommand
        /\ c_spawned = 0
        /\ c_sent = 0

IgnoredHostUnlockedWithForce ==
    /\ c_kind = "IgnoredHost"
    /\ c_op = "unlock"
    /\ c_args.force
    /\ c_ret = "deferred"

StopRefused ==
    /\ c_ret = "deferred"
    /\ c_state = "failed"
    /\ c_val = "RuntimeError: Not allowed to stop readonly"

\* C10 as claimed: stopping a ReadonlyService always fails with the policy
\* error and never issues a remote stop command, on every kind of host.
ReadonlyStopAlwaysRefused ==
    (c_kind = "ReadonlyService" /\ c_op = "stop") =>
        (StopRefused /\ c_cmd = NoCommand /\ c_spawned = 0)

\* C10 as amended: stopping a ReadonlyService never issues a remote stop
\* command; it fails with the policy error unless the service was created on
\* an IgnoredHost, where it succeeds with 0.
ReadonlyStopRefusedUnlessIgnored ==
    (c_kind = "ReadonlyService" /\ c_op = "stop") =>
        /\ c_cmd = NoCommand
        /\ c_spawned = 0
        /\ IF c_hostKind = "IgnoredHost"
           THEN c_ret = "deferred" /\ c_state = "succeeded" /\ c_val = "0"
           ELSE StopRefused

ReadonlyStopRefusedOnUnreachableHost ==
    c_kind = "ReadonlyService" /\ c_hostKind = "UnreachableHost" /\ c_op = "stop" /\ StopRefused

(***************************************************************************)
(* The registry after the status pipeline                                  *)
(***************************************************************************)

\* the phases in which build_unified_dependencies_tree has run
WiredPhases == {"wired", "missing_hosts", "readonly", "states", "stored"}

\* C1: once the wiring step has run, and up to the final registry after the
\* readonly substitution, B.uri is in A.needs exactly when A.uri is in
\* B.needed_by, for all components A and B the registry holds
WiringSymmetry ==
    phase \in WiredPhases =>
        \A A \in Values(components) : \A B \in Values(components) :
            (B.uri \in A.needs) <=> (A.uri \in B.needed_by)

\* the final registry holds a service that needs an artefact through its
\* alias, a missing artefact, and a ReadonlyService on a host fetched late
WiredAcrossHostsAndStored ==
    /\ phase = "stored"
    /\ \E A \in Values(components) :
        /\ A.cls = "Service"
        /\ \E B \in Values(components) :
              B.cls = "Artefact" /\ B.uri \in A.needs /\ A.uri \in B.needed_by
        /\ \E B \in Values(components) :
              B.cls = "MissingComponent" /\ B.uri \in A.needs /\ A.uri \in B.needed_by
    /\ \E A \in Values(components) : \E B \in Values(components) :
        /\ B.cls = "ReadonlyService" /\ B.uri \in A.needs /\ A.uri \in B.needed_by
        /\ B.host_uri \notin {<<"host", t[1]>> : t \in Targets}

\* C2: in the final registry every component that is not a host has its
\* host_uri in its needs, and that host_uri is a key of the registry that
\* holds a Host, an UnreachableHost or an IgnoredHost
HostEdgeComplete ==
    phase = "stored" =>
        \A C \in Values(components) :
            C.type # "host" =>
                /\ C.host_uri \in C.needs
                /\ C.host_uri \in Keys(components)
                /\ At(components, C.host_uri).cls \in
                       {"Host", "UnreachableHost", "IgnoredHost"}

\* the phases in which handle_readonly_service_states has run
ProbedPhases == {"states", "stored"}

\* C11: once the pipeline has completed, every service a component needs is
\* held by a Service or, where no probed host defines it, by a ReadonlyService;
\* no MissingComponent of type service remains; each ReadonlyService carries
\* the needed_by of the placeholder it replaced and is up exactly when its
\* yadt-service-status exited 0, down otherwise
ReadonlySubstitution ==
    phase \in ProbedPhases =>
        /\ \A C \in Values(components) :
              /\ ~(C.cls = "MissingComponent" /\ C.type = "service")
              /\ \A n \in C.needs :
                    n[1] = "service" =>
                        /\ n \in Keys(components)
                        /\ At(components, n).cls \in {"Service", "ReadonlyService"}
              /\ C.cls = "ReadonlyService" =>
                    \E i \in DOMAIN readonly_deferreds : readonly_deferreds[i].uri = C.uri
        /\ \A i \in DOMAIN readonly_deferreds :
              LET r == readonly_deferreds[i]
                  R == At(components, r.uri)
              IN  /\ R.cls = "ReadonlyService"
                  /\ R.uri = r.uri
                  /\ R.state = (IF r.code = 0 THEN "up" ELSE "down")
                  /\ \E j \in DOMAIN components.heap :
                        /\ components.heap[j].cls = "MissingComponent"
                        /\ components.heap[j].uri = r.uri
                        /\ components.heap[j].needed_by = R.needed_by
                        /\ R.needed_by # {}

\* the stored registry holds one ReadonlyService that is up and one that is down
ReadonlyUpAndDownStored ==
    /\ phase = "stored"
    /\ \E i \in DOMAIN readonly_deferreds : \E j \in DOMAIN readonly_deferreds :
        /\ readonly_deferreds[i].code = 0
        /\ At(components, readonly_deferreds[i].uri).state = "up"
        /\ readonly_deferreds[j].code # 0
        /\ At(components, readonly_deferreds[j].uri).state = "down"

\* the key of the host a probe is for
HostKey(component_name) == <<"host", component_name[1]>>

\* ignore_unreachable_hosts is set, globally or for this invocation
IgnoreUnreachable == settings_ignore_unreachable_hosts \/ kwargs_ignore_unreachable_hosts

\* C12: when the yadt-status of a target exits 255, an UnreachableHost is
\* stored under the host's uri and the branch succeeds if
\* ignore_unreachable_hosts is set, globally or for this invocation;
\* otherwise nothing is stored for the host and the branch fails
UnreachableDowngrade ==
    \A t \in DOMAIN deferreds :
        (deferreds[t].pc = "done" /\ deferreds[t].code = 255) =>
            IF IgnoreUnreachable
            THEN /\ deferreds[t].result = "ok"
                 /\ HostKey(t) \in Keys(components)
                 /\ At(components, HostKey(t)).cls = "UnreachableHost"
            ELSE /\ deferreds[t].result = "failed"
                 /\ HostKey(t) \notin Keys(components)

\* one target was downgraded by the flag of the invocation alone, and the
\* pipeline ran to its end
UnreachableByInvocationFlag ==
    /\ phase = "stored"
    /\ kwargs_ignore_unreachable_hosts /\ ~settings_ignore_unreachable_hosts
    /\ \E t \in DOMAIN deferreds :
        /\ deferreds[t].code = 255
        /\ At(components, HostKey(t)).cls = "UnreachableHost"

\* C13: a yadt-status that exits 127 fails the branch of its host and stores
\* nothing for the host, whatever ignore_unreachable_hosts is
NoMinionFailsBranch ==
    \A t \in DOMAIN deferreds :
        (deferreds[t].pc = "done" /\ deferreds[t].code = 127) =>
            /\ deferreds[t].result = "failed"
            /\ HostKey(t) \notin Keys(components)

\* a target without minion failed although both flags were set
NoMinionFailedDespiteFlags ==
    /\ settings_ignore_unreachable_hosts /\ kwargs_ignore_unreachable_hosts
    /\ \E t \in DOMAIN deferreds :
        /\ deferreds[t].code = 127
        /\ deferreds[t].result = "failed"
    /\ phase = "failed"

\* the names of the hosts probed so far, by target list or by re-probe
ProbedHosts ==
    {deferreds[t].name : t \in DOMAIN deferreds}
    \cup {missing_deferreds[i].name : i \in DOMAIN missing_deferreds}

\* every probe of the host has ended
ProbesEnded(h) ==
    /\ \A t \in DOMAIN deferreds : deferreds[t].name = h => deferreds[t].pc = "done"
    /\ \A i \in DOMAIN missing_deferreds :
          missing_deferreds[i].name = h => missing_deferreds[i].pc = "done"

\* the number of yadt-status processes spawned for the host
StatusSpawns(h) ==
    Cardinality({i \in DOMAIN spawned :
                    spawned[i].to = h /\ spawned[i].cmd = "yadt-status"})

\* the ignored-status probe answered: an IgnoredHost with the answer as
\* message is recorded
RecordedAsIgnored(h) ==
    /\ HostKey(h) \in Keys(components)
    /\ At(components, HostKey(h)).cls = "IgnoredHost"
    /\ At(components, HostKey(h)).message \in IgnoredMessages

\* C14: for each probed host exactly one of the two happens: an IgnoredHost
\* carrying the answer is recorded and no yadt-status is spawned, or the
\* ignored-status probe failed and exactly one yadt-status is spawned
IgnoredProbeClassification ==
    \A h \in ProbedHosts :
        ProbesEnded(h) =>
            \/ RecordedAsIgnored(h) /\ StatusSpawns(h) = 0
            \/ ~RecordedAsIgnored(h) /\ StatusSpawns(h) = 1

\* the classification holds for every single probe: it either carries an
\* answer and no exit code, or no answer and the exit code of its yadt-status
ProbeClassifiedOnce ==
    /\ \A t \in DOMAIN deferreds :
          deferreds[t].pc = "done" =>
              (deferreds[t].answer # None) # (deferreds[t].code # NoExit)
    /\ \A i \in DOMAIN missing_deferreds :
          missing_deferreds[i].pc = "done" =>
              (missing_deferreds[i].answer # None) # (missing_deferreds[i].code # NoExit)

\* nothing after check_responses has run: the registry is unwired and holds no
\* placeholder, no re-probe and no readonly probe was started, and the only
\* processes spawned are the yadt-status of the targets
LaterPhasesNotRun ==
    /\ phase \in {"hosts", "failed"}
    /\ ~add_when_missing
    /\ \A C \in Values(components) : C.needed_by = {} /\ C.cls # "MissingComponent"
    /\ missing_deferreds = <<>>
    /\ readonly_deferreds = <<>>
    /\ \A i \in DOMAIN spawned : spawned[i].cmd = "yadt-status" /\ spawned[i].to \in Targets

\* C15: if the branch of any host ends in error the pipeline fails and no
\* later phase runs (no wiring, no re-probe, no readonly probe, nothing
\* stored); if every branch succeeds check_responses lets the pipeline go on
FailureAggregation ==
    /\ (\E t \in DOMAIN deferreds : deferreds[t].result = "failed") => LaterPhasesNotRun
    /\ phase = "failed" => \E t \in DOMAIN deferreds : deferreds[t].result = "failed"
    /\ (phase # "hosts" /\ \A t \in DOMAIN deferreds : deferreds[t].result = "ok")
          => phase # "failed"

\* the pipeline failed on one target while the other had answered with its
\* services
FailedWithOneGoodBranch ==
    /\ phase = "failed"
    /\ \E t \in DOMAIN deferreds : deferreds[t].result = "failed"
    /\ \E t \in DOMAIN deferreds : deferreds[t].result = "ok" /\ deferreds[t].code = 0
    /\ \E C \in Values(components) : C.cls = "Service" /\ C.needs # {}

\* the phases that follow the DeferredList of the re-probes
AfterReprobePhases == {"readonly", "states", "stored"}

\* C16: a re-probe of an unknown host follows the protocol of the primary
\* probe: when it exits 255 and ignore_unreachable_hosts is set, globally or
\* for this invocation, an UnreachableHost is stored for the host; a failure
\* that is not downgraded fails the pipeline, so no later phase runs
ReprobeFollowsPrimaryProtocol ==
    \A i \in DOMAIN missing_deferreds :
        LET d == missing_deferreds[i]
        IN  (d.pc = "done" /\ d.code \notin {NoExit, 0}) =>
                IF d.code = 255 /\ IgnoreUnreachable
                THEN /\ d.result = "ok"
                     /\ HostKey(d.name) \in Keys(components)
                ELSE phase \notin AfterReprobePhases

(***************************************************************************)
(* Lookups in the registry                                                 *)
(***************************************************************************)

\* a lookup was made, in auto-fill mode or in strict mode
LookedUpAdding == d_call.op # "" /\ d_call.adding
LookedUpStrict == d_call.op # "" /\ ~d_call.adding

\* the lookup inserted exactly one MissingComponent, under its key, and
\* returned it
InsertedAndReturned(k) ==
    /\ Keys(components) = Keys(d_before) \cup {k}
    /\ \A other \in Keys(d_before) : components.reg[other] = d_before.reg[other]
    /\ components.heap = Append(d_before.heap, At(components, k))
    /\ At(components, k).cls = "MissingComponent"
    /\ At(components, k).state = "missing"
    /\ d_ret = [raised |-> None, value |-> components.reg[k]]

\* the lookup inserted nothing and returned the component stored
FoundAndReturned(k) ==
    /\ components = d_before
    /\ d_ret = [raised |-> None, value |-> d_before.reg[k]]

\* C17: in auto-fill mode a lookup (get or indexing) of a key the registry
\* does not hold inserts exactly one MissingComponent with state MISSING
\* under that key and returns it, a lookup of a key it holds inserts nothing
\* and returns the stored component, and a component used as key addresses
\* the entry of its uri
AutoFillLookup ==
    LookedUpAdding =>
        IF d_call.key.uri \in Keys(d_before)
        THEN FoundAndReturned(d_call.key.uri)
        ELSE InsertedAndReturned(d_call.key.uri)

\* the same holds of get with any key, and of indexing with a string
AutoFillLookupButIndexingByComponent ==
    (LookedUpAdding /\ ~(d_call.op = "getitem" /\ d_call.key.form = "component")) =>
        IF d_call.key.uri \in Keys(d_before)
        THEN FoundAndReturned(d_call.key.uri)
        ELSE InsertedAndReturned(d_call.key.uri)

\* C18: in strict mode a lookup of a key the registry does not hold reports
\* not-found (get returns the default, indexing raises KeyError) and leaves
\* the keys and the entries of the registry as they were
StrictLookup ==
    (LookedUpStrict /\ d_call.key.uri \notin Keys(d_before)) =>
        /\ components = d_before
        /\ d_call.op = "get" => d_ret = [raised |-> None, value |-> Default]
        /\ d_call.op = "getitem" => d_ret = [raised |-> "KeyError", value |-> 0]

\* indexing in strict mode with a component the registry of a host does not
\* hold raised KeyError, after a lookup in auto-fill mode had inserted
StrictIndexingRaisedKeyError ==
    /\ LookedUpStrict
    /\ d_call.op = "getitem" /\ d_call.key.form = "component"
    /\ d_call.key.uri \notin Keys(d_before)
    /\ d_ret.raised = "KeyError"
    /\ \E C \in Values(d_before) : C.cls = "MissingComponent"
    /\ \E C \in Values(d_before) : C.cls = "Artefact"

(***************************************************************************)
(* The mode of the registry and the aliases of the artefacts               *)
(***************************************************************************)

\* the phases in which build_unified_dependencies_tree has not yet run
BeforeWiringPhases == {"hosts", "checked", "failed"}

\* C19: the registry is in strict mode in every state of the pipeline before
\* the wiring starts and after it ends, normally or with an error, and no
\* MissingComponent exists before the wiring
AutoFillOnlyDuringWiring ==
    /\ ~add_when_missing
    /\ phase \in BeforeWiringPhases =>
          \A j \in DOMAIN components.heap : components.heap[j].cls # "MissingComponent"

\* the version of a uri is a revision alias
IsAlias(uri) == Len(uri) = 4 /\ uri[4] \in {"current", "next"}

\* C20: after the wiring no needs entry is the alias of an artefact the
\* registry holds, and the versioned key and the alias key of every artefact
\* map to the same Artefact object
AliasCanonicalization ==
    phase \in WiredPhases =>
        /\ \A C \in Values(components) : \A n \in C.needs :
              IsAlias(n) => ~(n \in Keys(components) /\ At(components, n).cls = "Artefact")
        /\ \A A \in Values(components) :
              A.cls = "Artefact" =>
                  /\ A.uri \in Keys(components)
                  /\ A.revision_uri \in Keys(components)
                  /\ components.reg[A.uri] = components.reg[A.revision_uri]

\* after the wiring no needs entry is an alias at all, and each alias key
\* leads to an artefact that is stored under its versioned key as well
AliasesResolvedInNeeds ==
    phase \in WiredPhases =>
        /\ \A C \in Values(components) : \A n \in C.needs : ~IsAlias(n)
        /\ \A k \in Keys(components) :
              IsAlias(k) => /\ At(components, k).cls \in {"Artefact", "MissingComponent"}
                            /\ At(components, k).cls = "Artefact" =>
                                  components.reg[At(components, k).uri] = components.reg[k]

(***************************************************************************)
(* References and host states in the registry                              *)
(***************************************************************************)

\* C21: once the pipeline has completed, every uri in the needs of a
\* component of the registry is a key of the registry, also where a service
\* needs an artefact or a service that no probed host provides
NoUnresolvedReference ==
    phase = "stored" =>
        \A C \in Values(components) : \A n \in C.needs : n \in Keys(components)

\* the same, of the needs that name a host or a service
NoUnresolvedHostOrServiceReference ==
    phase = "stored" =>
        \A C \in Values(components) : \A n \in C.needs :
            n[1] \in {"host", "service"} => n \in Keys(components)

\* the Host objects that create_host has decoded
DecodedHosts == {j \in DOMAIN components.heap : components.heap[j].cls = "Host"}

\* C22: after set_attrs_from_data the state of a Host is UPTODATE exactly when
\* its next_artefacts are empty and UPDATE_NEEDED otherwise, never UNKNOWN
HostStateAfterDecode ==
    \A j \in DecodedHosts :
        LET host == components.heap[j]
        IN  /\ host.state = "uptodate" <=> host.next_artefacts = <<>>
            /\ host.state = "update_needed" <=> host.next_artefacts # <<>>
            /\ host.state # "unknown"

\* one decoded host has an update on offer, another has none but has
\* artefacts installed
HostsDecodedWithAndWithoutUpdate ==
    /\ \E j \in DecodedHosts :
        /\ components.heap[j].next_artefacts # <<>>
        /\ components.heap[j].state = "update_needed"
    /\ \E j \in DecodedHosts :
        /\ components.heap[j].next_artefacts = <<>>
        /\ components.heap[j].current_artefacts # <<>>
        /\ components.heap[j].state = "uptodate"

(***************************************************************************)
(* Plans                                                                   *)
(***************************************************************************)

\* the position of an action in the list the plan was constructed with
GivenAt(action) == CHOOSE i \in DOMAIN plan_given : plan_given[i] = action

\* the action is on a handled host
OnHandledHost(action) == <<"host", action.uri[2]>> \in handled_hosts

\* C23: remove_actions_on_unhandled_hosts leaves in the plan exactly the
\* actions whose component's host_uri is among the handled hosts, in the order
\* they had, and leaves a plan alone whose actions are all on handled hosts
PlanFiltering ==
    (command.cmd = None /\ plan_state = "filtered") =>
        /\ \A i \in DOMAIN plan_given :
              OnHandledHost(plan_given[i]) <=>
                  \E j \in DOMAIN plan.actions : plan.actions[j] = plan_given[i]
        /\ \A j \in DOMAIN plan.actions :
              \E i \in DOMAIN plan_given : plan_given[i] = plan.actions[j]
        /\ \A j, k \in DOMAIN plan.actions :
              j < k => GivenAt(plan.actions[j]) < GivenAt(plan.actions[k])
        /\ (\A i \in DOMAIN plan_given : OnHandledHost(plan_given[i])) =>
              plan.actions = plan_given

\* of three actions the one in the middle was removed and the others kept
FilteredAroundUnhandledHost ==
    /\ command.cmd = None
    /\ plan_state = "filtered"
    /\ Len(plan_given) = 3
    /\ plan.actions = <<plan_given[1], plan_given[3]>>

\* a plan whose actions are all on handled hosts has been filtered
FilteredWithAllHostsHandled ==
    /\ command.cmd = None
    /\ plan_state = "filtered"
    /\ Len(plan_given) = 2
    /\ plan.actions = plan_given

\* the actions a worker has started, by command and uri
Dispatched ==
    {<<e.cmd, e.uri>> : e \in UNION {{host_log[h][i] : i \in DOMAIN host_log[h]} :
                                        h \in DOMAIN host_log}}
        \ {<<"status", uri_create("host", t[1], None, None)>> : t \in Targets}

\* C24: when the filter removes every action of a plan it raises PlanEmpty,
\* and no action of that plan is ever dispatched
EmptyPlanRaises ==
    /\ plan_state = "filtered" => plan.actions # <<>>
    /\ (plan_state = "queued" /\ pool.tasks = <<>>) => plan_given = <<>>
    /\ plan_state = "PlanEmpty" =>
          /\ \A i \in DOMAIN plan.actions : ~OnHandledHost(plan.actions[i])
          /\ ~pool.created
          /\ reactor = <<>>
          /\ Dispatched = {}

\* a plan of two actions, none on a handled host, has raised PlanEmpty
PlanEmptyRaised ==
    /\ command.cmd = None
    /\ plan_state = "PlanEmpty"
    /\ Len(plan.actions) = 2
    /\ handled_hosts # {}

(***************************************************************************)
(* The DeferredPool                                                        *)
(***************************************************************************)

\* what the hosts have logged
LogEntries == UNION {{host_log[h][i] : i \in DOMAIN host_log[h]} : h \in DOMAIN host_log}

\* the actions whose command has ended, and those among them that failed
Ended == {<<e.cmd, e.uri>> : e \in {x \in LogEntries : x.event = "end"}}
Failed == {<<e.cmd, e.uri>> : e \in {x \in LogEntries : x.event = "end" /\ x.code # 0}}

\* C25: of K failing and M succeeding independent actions in the queue every
\* one is dispatched and ends, whatever the others did, and when the queue
\* has drained the pool fails with ActionException("Could not execute K
\* action(s)", K) if K > 0 and succeeds if K = 0
ExecutorAggregation ==
    (command.cmd = None /\ pool.created) =>
        /\ pool.finished =>
              /\ pool.queue = <<>>
              /\ \A i \in DOMAIN pool.tasks : ActionId(pool.tasks[i]) \in Ended
        /\ pool_result # NotFired =>
              /\ pool.finished
              /\ LET K == Cardinality(Failed)
                 IN  IF K > 0
                     THEN pool_result =
                            [delay |-> 0, f |-> "errback",
                             arg |-> [message |-> "Could not execute " \o ToString(K)
                                                   \o " action(s)",
                                      code |-> K]]
                     ELSE pool_result.f = "callback"

\* two of three actions failed, the third succeeded after a failure, and the
\* pool has failed
PoolFailedWithTwoOfThree ==
    /\ command.cmd = None
    /\ Len(pool.tasks) = 3
    /\ Cardinality(Failed) = 2
    /\ Cardinality(Ended) = 3
    /\ pool_result.f = "errback"
    /\ pool_result.arg.message = "Could not execute 2 action(s)"

\* three actions succeeded and the pool has succeeded
PoolSucceededWithThree ==
    /\ command.cmd = None
    /\ Len(pool.tasks) = 3
    /\ Failed = {}
    /\ pool_result.f = "callback"

\* the actions in flight: started, not ended
InFlight == Dispatched \ Ended

\* C26: a DeferredPool created with nr_workers = N has exactly N workers,
\* named <pool>_worker0 .. <pool>_worker(N-1), each started once, and at most
\* N actions are in flight in every state
ConcurrencyCap ==
    pool.created =>
        /\ Len(pool.workers) = command.nr_workers
        /\ \A i \in DOMAIN pool.workers :
              /\ pool.workers[i].name = "pool-name_worker" \o ToString(i - 1)
              /\ pool.workers[i].started = 1
        /\ Cardinality(InFlight) <= command.nr_workers

\* two workers are busy and a third action waits in the queue
WorkersBusyAndActionWaiting ==
    /\ pool.created
    /\ command.nr_workers = 2
    /\ Cardinality(InFlight) = 2
    /\ Len(pool.queue) = 1
    /\ next_task(pool.queue, pool.done) = 1

\* C27: a DeferredPool created with an empty queue has its callback
\* scheduled with delay 0 from its creation on, and dispatches no action
EmptyQueueCallback ==
    (pool.created /\ pool.tasks = <<>>) =>
        /\ \/ reactor = <<[delay |-> 0, f |-> "callback", arg |-> NoArg]>>
           \/ /\ reactor = <<>>
              /\ pool_result = [delay |-> 0, f |-> "callback", arg |-> NoArg]
        /\ Dispatched = {}

\* the pool of an empty plan has been created and the reactor has not run yet
EmptyPoolCreated ==
    /\ pool.created
    /\ pool.tasks = <<>>
    /\ Len(reactor) = 1
    /\ pool_result = NotFired

(***************************************************************************)
(* Commands: update and lock                                               *)
(***************************************************************************)

\* the commands of an update on a host, each started and ended, in order
UpdateOrder(host) ==
    LET host_uri == <<"host", host>>
        frontend == <<"service", host, "fe">>
        backend == <<"service", host, "be">>
        steps == << <<"status", host_uri>>, <<"stop", frontend>>, <<"stop", backend>>,
                    <<"update", host_uri>>, <<"probe", host_uri>>,
                    <<"start", backend>>, <<"start", frontend>> >>
    IN  [i \in 1..(2 * Len(steps)) |->
            <<steps[(i + 1) \div 2][1], steps[(i + 1) \div 2][2],
              IF i % 2 = 1 THEN "start" ELSE "end">>]

\* what a host has logged, without the exit codes
Logged(host) ==
    [i \in DOMAIN host_log[host] |->
        <<host_log[host][i].cmd, host_log[host][i].uri, host_log[host][i].event>>]

IsPrefix(s, t) == Len(s) <= Len(t) /\ s = SubSeq(t, 1, Len(s))

\* C28: in an update the commands of each host occur in this order, whatever
\* the other hosts do: status, stop of the frontend, stop of the backend,
\* upgrade, probe of the host, start of the backend, start of the frontend,
\* each ended before the next one starts
UpdateOrdering ==
    command.cmd = "update" =>
        \A t \in Targets : IsPrefix(Logged(t[1]), UpdateOrder(t[1]))

\* an update with more workers than hosts has run on both hosts to its end
ParallelUpdateCompleted ==
    /\ command.cmd = "update"
    /\ command.nr_workers > Cardinality(Targets)
    /\ \A t \in Targets : Logged(t[1]) = UpdateOrder(t[1])
    /\ exit_code = 0

\* the upgrades of both hosts are running at once
UpgradesInParallel ==
    /\ command.cmd = "update"
    /\ \A t \in Targets : <<"update", <<"host", t[1]>> >> \in InFlight

DoComponentAt(i) ==
    At(do_state.components, component_key(do_state.components, do_args.component_names[i]))

\* the name at position i is known and the command is no method of its component
UndefinedAt(i) ==
    /\ ~component_unknown(do_state.components, do_args.component_names[i])
    /\ do_args.cmd \notin Methods(DoComponentAt(i).cls)

\* the name at position i is known and the command is called on its
\* component without an exception
CalledAt(i) ==
    /\ ~component_unknown(do_state.components, do_args.component_names[i])
    /\ do_args.cmd \in Methods(DoComponentAt(i).cls)
    /\ ~fun_raises(DoComponentAt(i), do_args.cmd, do_opts)

\* C30 as stated: a command that is no operation of one of the selected
\* components ends with exit code 2
UndefinedVerbExitsWith2 ==
    ( /\ do_pc = "ended"
      /\ do_args.component_names # <<>>
      /\ do_state.stored
      /\ \E i \in DOMAIN do_args.component_names : UndefinedAt(i) ) =>
        do_exit.code = 2

\* C30: a command with no components, or with no status stored, ends with
\* exit code 1 before any operation is called; a command that is no operation
\* of a selected component ends with exit code 2 when do comes to that
\* component, the operations of the components before it having returned
CommandExitCodes ==
    do_pc = "ended" =>
        /\ (do_args.component_names = <<>> \/ ~do_state.stored) =>
              /\ do_exit = [raised |-> "SystemExit", code |-> 1]
              /\ do_called = <<>>
        /\ ( /\ do_args.component_names # <<>>
             /\ do_state.stored
             /\ \E i \in DOMAIN do_args.component_names :
                   /\ UndefinedAt(i)
                   /\ \A j \in 1..(i - 1) : CalledAt(j) ) =>
              do_exit = [raised |-> "SystemExit", code |-> 2]

\* lock was called on a host and then found undefined for a service
ExitedWith2AfterOneCall ==
    /\ do_pc = "ended"
    /\ do_exit.code = 2
    /\ do_args.cmd = "lock"
    /\ do_called = << <<"lock", <<"host", "h1">> >> >>

\* ignore was given components and a message, but no status had run
IgnoreWithoutStatusExitedWith1 ==
    /\ do_pc = "ended"
    /\ do_args.cmd = "ignore"
    /\ do_args.component_names # <<>>
    /\ do_opts.message.some
    /\ ~do_state.stored
    /\ do_exit.code = 1

\* a command was given no components
NoComponentsExitedWith1 ==
    /\ do_pc = "ended"
    /\ do_args.component_names = <<>>
    /\ do_state.stored
    /\ do_exit.code = 1

(***************************************************************************)
(* The objects of a decoded host                                           *)
(***************************************************************************)

\* the targets whose branch ran to its end without an error
Initialized == {t \in DOMAIN deferreds : deferreds[t].pc = "done" /\ deferreds[t].result = "ok"}

\* the keys of an artefact entry name/version of the given revision hold one
\* installed Artefact
Materialized(host, name_version, revision) ==
    LET versioned == uri_create("artefact", host.name, name_version[1], name_version[2])
        alias == uri_create("artefact", host.name, name_version[1], revision)
    IN  /\ versioned \in Keys(components)
        /\ alias \in Keys(components)
        /\ components.reg[versioned] = components.reg[alias]
        /\ At(components, versioned).cls = "Artefact"
        /\ At(components, versioned).state = "installed"

\* C31: after initialize_artefacts for a host, every entry name/version of
\* its current_artefacts and of its next_artefacts has one installed Artefact
\* in the registry, under the versioned key and under the revision key alike
ArtefactMaterialization ==
    \A t \in Initialized :
        LET host == At(components, uri_create("host", t[1], None, None))
        IN  /\ \A i \in DOMAIN host.current_artefacts :
                  Materialized(host, host.current_artefacts[i], "current")
            /\ \A i \in DOMAIN host.next_artefacts :
                  Materialized(host, host.next_artefacts[i], "next")

\* the same for the hosts that list every artefact name once per revision
ArtefactMaterializationOfDistinctNames ==
    \A t \in Initialized :
        LET host == At(components, uri_create("host", t[1], None, None))
            names(list) == {list[i][1] : i \in DOMAIN list}
        IN  /\ Cardinality(names(host.current_artefacts)) = Len(host.current_artefacts)
              => \A i \in DOMAIN host.current_artefacts :
                    Materialized(host, host.current_artefacts[i], "current")
            /\ Cardinality(names(host.next_artefacts)) = Len(host.next_artefacts)
              => \A i \in DOMAIN host.next_artefacts :
                    Materialized(host, host.next_artefacts[i], "next")

\* the Host objects that set_attrs_from_data has decoded
Decoded ==
    {components.heap[j] : j \in {i \in DOMAIN components.heap :
        /\ components.heap[i].cls = "Host"
        /\ components.heap[i].state \in {"uptodate", "update_needed"}}}

\* the map that holds exactly the entries a record lists
Listed(data) ==
    IF data.services_type = "list"
    THEN [n \in {data.services_list[i].name : i \in DOMAIN data.services_list} |->
            LET i == CHOOSE k \in DOMAIN data.services_list : data.services_list[k].name = n
            IN  data.services_list[i].settings]
    ELSE data.services

\* C32: set_attrs_from_data leaves the services of a host as a map, also
\* when the record gives them as a list of single-entry maps of any length,
\* the empty list included, and the map holds exactly the listed entries
LegacyServicesNormalization ==
    \A host \in Decoded :
        /\ host.services_type = "dict"
        /\ \E data \in HostRecords(host.fqdn) : host.services = Listed(data)

\* a list that is not empty is normalised; the empty list stays a list, and
\* the branch of its host ends with the AttributeError of initialize_services
NonEmptyLegacyServicesNormalized ==
    \A host \in Decoded :
        /\ \E data \in HostRecords(host.fqdn) : host.services = Listed(data)
        /\ host.services_type = "list" =>
              /\ host.services_list = <<>>
              /\ \E t \in DOMAIN deferreds :
                    /\ t[1] = host.name
                    /\ deferreds[t].result = "failed"
                    /\ deferreds[t].error = "AttributeError"

\* the targets whose yadt-status answered with a hostname that is not the
\* first label of the FQDN
Misnamed ==
    {t \in DOMAIN deferreds : /\ deferreds[t].pc = "done"
                              /\ deferreds[t].hostname \notin {None, t[1]}}

\* C33: a hostname that differs from the first label of the FQDN only warns:
\* set_attrs_from_data completes, the decoded attributes are set, the state
\* and the lock flags are derived, and the branch of the host does not fail
HostnameMismatchOnlyWarns ==
    \A t \in Misnamed :
        LET host_uri == uri_create("host", t[1], None, None)
        IN  /\ deferreds[t].result = "ok"
            /\ host_uri \in Keys(components)
            /\ At(components, host_uri).hostname = deferreds[t].hostname
            /\ At(components, host_uri).state \in {"uptodate", "update_needed"}
            /\ At(components, host_uri).is_locked \in {PyTrue, PyFalse}

\* the branch of such a host fails with the ValueError of the format, and
\* no host is stored for it
HostnameMismatchFailsBranch ==
    \A t \in Misnamed :
        /\ deferreds[t].result = "failed"
        /\ deferreds[t].error = "ValueError"
        /\ uri_create("host", t[1], None, None) \notin Keys(components)

\* a needs_services entry in service:// form
IsServiceUri(n) == Len(n) = 3 /\ n[1] = "service"

\* the needs of a new Service: the uri of its host, a service uri per
\* needs_services entry (a bare name qualified to the host of the service),
\* an artefact uri .../current per needs_artefacts entry
DeclaredNeeds(host, settings) ==
    {host.uri}
    \cup {IF Len(n) = 1 THEN uri_create("service", host.host, n[1], None) ELSE n :
            n \in settings.needs_services}
    \cup {uri_create("artefact", host.host, n, "current") : n \in settings.needs_artefacts}

\* the services of the decoded hosts, each with its host and its settings
NewServices ==
    {<<S, host>> \in Values(components) \X Decoded :
        S.cls = "Service" /\ S.host = host.name /\ S.name \in DOMAIN host.services}

\* C34: before the wiring, the needs of every Service are the uri of its
\* host, one service uri per needs_services entry, a bare name qualified to
\* the host, and one artefact uri per needs_artefacts entry; its state is
\* the description of the state of its settings
ServiceNeedsConstruction ==
    phase \in BeforeWiringPhases =>
        \A x \in NewServices :
            /\ x[1].needs = DeclaredNeeds(x[2], x[2].services[x[1].name])
            /\ x[1].state = state_description(x[2].services[x[1].name].state)

\* the same for the services none of whose bare names begins with "service"
ServiceNeedsOfPlainNames ==
    phase \in BeforeWiringPhases =>
        \A x \in NewServices :
            LET settings == x[2].services[x[1].name]
            IN  /\ (\A n \in settings.needs_services :
                        Len(n) = 1 => n[1] \notin ServicePrefixed)
                      => x[1].needs = DeclaredNeeds(x[2], settings)
                /\ x[1].state = state_description(settings.state)

\* C36: after set_attrs_from_data, is_locked holds exactly when lockstate is
\* not null, is_locked_by_me exactly when the host is locked and the owner
\* of the lockstate is the owner identity of the executing user, and
\* is_locked_by_other exactly when the host is locked and not locked by me;
\* the two are never both true, and one of them is true when is_locked is
LockFlagDerivation ==
    \A host \in Decoded :
        LET locked == truthy(host.is_locked)
            by_me == truthy(host.is_locked_by_me)
            by_other == truthy(host.is_locked_by_other)
        IN  /\ locked <=> ~host.lockstate.null
            /\ by_me <=> (locked /\ host.lockstate.owner = UserOwner)
            /\ by_other <=> (locked /\ ~by_me)
            /\ ~(by_me /\ by_other)
            /\ locked => (by_me \/ by_other)

\* one host is locked by the user of the shell, the other by another user
LockedByMeAndByOther ==
    \E mine, theirs \in Decoded :
        /\ mine.is_locked_by_me = PyTrue /\ mine.is_locked_by_other = PyFalse
        /\ theirs.is_locked_by_other = PyTrue /\ theirs.is_locked = PyTrue

\* a host is locked with a lockstate that names no owner
LockedByNobodyNamed ==
    \E host \in Decoded :
        /\ ~host.lockstate.null
        /\ host.lockstate.len = 0
        /\ host.is_locked_by_other = PyTrue

\* the hosts of the registry that stand for a host without a status
Placeholders ==
    {P \in Values(components) : P.cls \in {"UnreachableHost", "IgnoredHost"}}

\* the keys of the registry whose component is on the host
KeysOn(P) == {k \in Keys(components) : At(components, k).host = P.name}

\* an UnreachableHost or IgnoredHost is not reachable, is unknown exactly
\* when it is unreachable, and is locked neither by me nor by other
PlaceholderReports(P) ==
    /\ ~is_reachable(P)
    /\ is_unknown(P) <=> P.cls = "UnreachableHost"
    /\ ~truthy(P.is_locked_by_me)
    /\ ~truthy(P.is_locked_by_other)

\* C37 as stated: the registry holds one entry for a host classified as
\* UnreachableHost or IgnoredHost, its host uri, and no service or artefact
\* on it; the host reports is_reachable false, is_unknown true only when
\* unreachable, and no lock of mine or of another
PlaceholderHostsOneEntry ==
    \A P \in Placeholders : KeysOn(P) = {P.uri} /\ PlaceholderReports(P)

\* C37: the branch of such a host adds its host uri only: before the wiring
\* this is the one entry on the host; later the other entries on it are the
\* services that other hosts need there, as MissingComponent and then as
\* ReadonlyService; no Service and no Artefact is ever instantiated for it
PlaceholderHostsStayBare ==
    \A P \in Placeholders :
        /\ PlaceholderReports(P)
        /\ P.defined_services = <<>>
        /\ phase \in BeforeWiringPhases => KeysOn(P) = {P.uri}
        /\ \A k \in KeysOn(P) \ {P.uri} :
              /\ At(components, k).cls \in {"MissingComponent", "ReadonlyService"}
              /\ At(components, k).type = "service"

\* the pipeline has completed with an IgnoredHost and an UnreachableHost, and
\* a ReadonlyService stands on one of them
PlaceholdersStored ==
    /\ phase = "stored"
    /\ \E P, Q \in Placeholders :
          /\ P.cls = "IgnoredHost"
          /\ Q.cls = "UnreachableHost"
          /\ \E k \in KeysOn(P) \cup KeysOn(Q) : At(components, k).cls = "ReadonlyService"

(***************************************************************************)
(* The order of the phases and the snapshot                                *)
(***************************************************************************)

\* the phases from the wiring on, and from the readonly substitution on
FromWiringPhases == WiredPhases \cup {"wiring_failed"}

\* C38: the wiring starts only after every branch of a host has settled, the
\* readonly substitution only after every re-probe of a missing host has
\* settled, and the manifests, the snapshot and the broadcast are produced
\* only after every ReadonlyService has its state UP or DOWN, in whatever
\* order the remote processes end
PhaseOrdering ==
    /\ phase \in FromWiringPhases =>
          \A t \in Targets : /\ t \in DOMAIN deferreds
                             /\ deferreds[t].pc = "done"
                             /\ deferreds[t].result = "ok"
    /\ phase \in AfterReprobePhases =>
          \A i \in DOMAIN missing_deferreds : missing_deferreds[i].pc = "done"
    /\ (phase = "stored" \/ snapshot = "written") =>
          /\ \A i \in DOMAIN readonly_deferreds : readonly_deferreds[i].pc = "done"
          /\ \A C \in Values(components) :
                C.cls = "ReadonlyService" => C.state \in {"up", "down"}
    /\ \A i, j \in DOMAIN spawned :
          (i < j /\ spawned[i].cmd = "yadt-service-status")
              => spawned[j].cmd = "yadt-service-status"

\* the pipeline has stored a registry for which it re-probed a host and
\* probed two readonly services, one up and one down
StoredAfterReprobeAndReadonlyProbes ==
    /\ phase = "stored"
    /\ snapshot = "written"
    /\ Len(missing_deferreds) >= 1
    /\ \E i, j \in DOMAIN readonly_deferreds :
          readonly_deferreds[i].code = 0 /\ readonly_deferreds[j].code = 1

\* the phases in which status() has come to an end with an error
FailedPhases == {"failed", "wiring_failed"}

FailedAtCheckWithoutSnapshot ==
    phase = "failed" /\ snapshot = "absent"

(***************************************************************************)
(* ReadonlyService.start                                                   *)
(***************************************************************************)

ReadonlyStarted == c_kind = "ReadonlyService" /\ c_op = "start"

\* C35: the start of a ReadonlyService never issues a remote start command;
\* on a host that is not ignored it runs exactly one status probe and
\* succeeds exactly when the probe exits 0, failing with "Cannot start
\* readonly" otherwise; on an IgnoredHost it succeeds and spawns no process
ReadonlyStartIsAProbe ==
    ReadonlyStarted =>
        /\ c_ret = "deferred"
        /\ c_cmd.command # "yadt-service-start"
        /\ IF c_hostKind = "IgnoredHost"
           THEN /\ c_state = "succeeded"
                /\ c_spawned = 0
                /\ c_cmd = NoCommand
           ELSE /\ c_spawned = 1
                /\ c_cmd.command = "yadt-service-status"
                /\ c_state = "pending" <=> c_exit = NoExit
                /\ c_state = "succeeded" <=> c_exit = 0
                /\ c_state = "failed" <=> c_exit \notin {0, NoExit}
                /\ c_state = "failed" => c_val = "RuntimeError: Cannot start readonly"

\* a ReadonlyService on a host that is not ignored was started and its probe
\* ended with the exit code of an unreachable host
ReadonlyStartFailedWithProbe ==
    /\ ReadonlyStarted
    /\ c_hostKind = "Host"
    /\ c_exit = 255
    /\ c_state = "failed"

\* a ReadonlyService on an IgnoredHost was started
ReadonlyStartedOnIgnoredHost ==
    ReadonlyStarted /\ c_hostKind = "IgnoredHost" /\ c_state = "succeeded"

(***************************************************************************)
(* Remote processes and ignored hosts                                      *)
(***************************************************************************)

\* the registry holds the host of this name as an IgnoredHost
ClassifiedIgnored(st, hostname) ==
    /\ <<"host", hostname>> \in Keys(st)
    /\ At(st, <<"host", hostname>>).cls = "IgnoredHost"

\* the processes a step of the pipeline spawns
NewlySpawned == {spawned'[i] : i \in (DOMAIN spawned') \ (DOMAIN spawned)}

\* C40: once a host has been classified as IgnoredHost, in the primary probe
\* or in a re-probe, the pipeline spawns no process addressed to that host,
\* the state probe of a ReadonlyService substituted on it included
NoProcessTowardIgnoredHost ==
    [][\A process \in NewlySpawned :
          ~ClassifiedIgnored(components, process.to[1])]_vars

\* the primary probes keep away from an ignored host: the branch of a target
\* spawns no yadt-status process toward a host the registry holds as an
\* IgnoredHost
PrimaryProbeSkipsIgnoredHost ==
    [][\A process \in NewlySpawned :
          (phase = "hosts" /\ process.cmd = "yadt-status")
              => ~ClassifiedIgnored(components, process.to[1])]_vars

\* a ReadonlyService was substituted on an IgnoredHost and its state probe
\* was spawned toward that host
ReadonlyProbedOnIgnoredHost ==
    \E i \in DOMAIN spawned :
        /\ spawned[i].cmd = "yadt-service-status"
        /\ ClassifiedIgnored(components, spawned[i].to[1])

====
